---- MODULE Spec2Model ----
\* A model of the e-json value engine (src/e-json.h): the JSON value type, its
\* mutable accessors, path addressing, merge, flatten, the serializer and the
\* recursive-descent parser; and of the e-xml node engine (src/e-xml.h): the
\* Node type, its mutators, the serializer and the parser.
\*
\* Text (std::string) is a sequence of bytes 0..255.  A JSON value is a record
\* with a tag t, one tag per alternative of the std::variant JSONValue.
\* A number is a decimal m * 10^e in normal form (m = 0 and e = 0, or 10 does
\* not divide m): for at most 15 significant digits strtod and the stream
\* formatting of a double are exact on such decimals, so the decimal stands for
\* the double it converts to.
EXTENDS Integers, Sequences, FiniteSets, TLC

VARIABLES
    doc,          \* the document the caller holds: a JSON value or an XML Node
    char_signed,  \* whether plain char is signed in this build (implementation-defined)
    last,         \* the last call: its name op, the document pre before it, its
                  \* arguments arg, what it returned ret, whether it threw err
    clean,        \* history: no call has thrown so far
    input         \* the text the caller has at hand to parse

vars == <<doc, char_signed, last, clean, input>>

\* ---------------------------------------------------------------- text

Ascii ==
    << " ", "!", "\"", "#", "$", "%", "&", "'", "(", ")", "*", "+", ",", "-", ".", "/",
       "0", "1", "2", "3", "4", "5", "6", "7", "8", "9", ":", ";", "<", "=", ">", "?",
       "@", "A", "B", "C", "D", "E", "F", "G", "H", "I", "J", "K", "L", "M", "N", "O",
       "P", "Q", "R", "S", "T", "U", "V", "W", "X", "Y", "Z", "[", "\\", "]", "^", "_",
       "grave", "a", "b", "c", "d", "e", "f", "g", "h", "i", "j", "k", "l", "m", "n", "o",
       "p", "q", "r", "s", "t", "u", "v", "w", "x", "y", "z", "{", "|", "}", "~" >>

\* The byte of a printable ASCII character.
Ord(c) == 31 + (CHOOSE i \in 1..Len(Ascii) : Ascii[i] = c)

RECURSIVE Txt(_)
\* The text whose characters are listed in cs.
Txt(cs) == IF cs = <<>> THEN <<>> ELSE <<Ord(Head(cs))>> \o Txt(Tail(cs))

\* s[i] for a 0-based index i < s.size().
At(s, i) == s[i + 1]

\* s.substr(pos, n): at most n bytes from the 0-based position pos.
Substr(s, pos, n) ==
    SubSeq(s, pos + 1, IF pos + n > Len(s) THEN Len(s) ELSE pos + n)

RECURSIVE Spaces(_)
\* std::string(n, ' ')
Spaces(n) == IF n <= 0 THEN <<>> ELSE <<32>> \o Spaces(n - 1)

\* The value of a byte held in a plain char of this build.
AsChar(b) == IF char_signed /\ b >= 128 THEN b - 256 ELSE b

\* <cctype> on bytes; the library passes plain char, and the C locale's tables
\* answer false for every byte above 127.
IsDigit(b) == b >= 48 /\ b <= 57
IsAlpha(b) == (b >= 65 /\ b <= 90) \/ (b >= 97 /\ b <= 122)
IsAlnum(b) == IsAlpha(b) \/ IsDigit(b)
IsSpace(b) == b = 32 \/ (b >= 9 /\ b <= 13)
IsHex(b) == IsDigit(b) \/ (b >= 65 /\ b <= 70) \/ (b >= 97 /\ b <= 102)
HexVal(b) == IF IsDigit(b) THEN b - 48 ELSE IF b >= 97 THEN b - 87 ELSE b - 55

RECURSIVE Pow(_, _)
Pow(b, n) == IF n <= 0 THEN 1 ELSE b * Pow(b, n - 1)

Abs(n) == IF n < 0 THEN -n ELSE n

RECURSIVE DecText(_)
\* operator<< of a non-negative integer in decimal.
DecText(n) == IF n < 10 THEN <<48 + n>> ELSE DecText(n \div 10) \o <<48 + (n % 10)>>

RECURSIVE HexText(_)
\* operator<< of a non-negative integer under std::hex (lower case).
HexText(n) ==
    LET d == n % 16
        c == IF d < 10 THEN 48 + d ELSE 87 + d
    IN  IF n < 16 THEN <<c>> ELSE HexText(n \div 16) \o <<c>>

RECURSIVE Zeros(_)
Zeros(n) == IF n <= 0 THEN <<>> ELSE <<48>> \o Zeros(n - 1)

\* std::to_string / operator<< of a signed integer.
IntText(n) == IF n < 0 THEN <<45>> \o DecText(-n) ELSE DecText(n)

\* std::string operator<: bytes compare as unsigned char, a proper prefix is less.
RECURSIVE KeyLess(_, _)
KeyLess(a, b) ==
    IF b = <<>> THEN FALSE
    ELSE IF a = <<>> THEN TRUE
    ELSE IF Head(a) # Head(b) THEN Head(a) < Head(b)
    ELSE KeyLess(Tail(a), Tail(b))

\* ---------------------------------------------------------------- values

Null == [t |-> "null"]
Bool(b) == [t |-> "bool", v |-> b]
Str(s) == [t |-> "str", v |-> s]
Arr(a) == [t |-> "arr", v |-> a]
Obj(f) == [t |-> "obj", v |-> f]

RECURSIVE Normal(_, _)
\* The normal form of the decimal m * 10^e.
Normal(m, e) ==
    IF m = 0 THEN [m |-> 0, e |-> 0]
    ELSE IF m % 10 = 0 THEN Normal(m \div 10, e + 1)
    ELSE [m |-> m, e |-> e]

\* JSON(double): the number m * 10^e.
Num(m, e) == [t |-> "num", v |-> Normal(m, e)]

is_null(j) == j.t = "null"
is_bool(j) == j.t = "bool"
is_number(j) == j.t = "num"
is_string(j) == j.t = "str"
is_array(j) == j.t = "arr"
is_object(j) == j.t = "obj"
is_primitive(j) == is_null(j) \/ is_bool(j) \/ is_number(j) \/ is_string(j)

\* std::map<std::string, JSON>{}; the empty function.
EmptyMap == <<>>

\* obj[key] = x on a std::map: the key is unique, the entry is inserted or replaced.
MapPut(f, k, x) == [kk \in (DOMAIN f) \cup {k} |-> IF kk = k THEN x ELSE f[kk]]

RECURSIVE SortKeysDescending(_)
\* The keys of a map visited from the largest to the smallest.
SortKeysDescending(S) ==
    IF S = {} THEN <<>>
    ELSE LET k == CHOOSE x \in S : \A y \in S \ {x} : KeyLess(y, x)
         IN  <<k>> \o SortKeysDescending(S \ {k})

RECURSIVE SortKeys(_)
\* The keys of a std::map in the order its iterators visit them.
SortKeys(S) ==
    IF S = {} THEN <<>>
    ELSE LET k == CHOOSE x \in S : \A y \in S \ {x} : KeyLess(x, y)
         IN  <<k>> \o SortKeys(S \ {k})

MapKeys(f) == SortKeys(DOMAIN f)

\* A resize that value-initializes every element, the old ones included.
ResizeCleared(a, n) == [i \in 1..n |-> Null]

\* std::vector::resize(n) when n > size(): default-constructed (Null) elements.
RECURSIVE Resize(_, _)
Resize(a, n) == IF Len(a) >= n THEN a ELSE Resize(Append(a, Null), n)

\* ---------------------------------------------------------------- dump

NumDigits(a) == Len(DecText(a))

RECURSIVE StripZeros(_)
StripZeros(q) == IF q # 0 /\ q % 10 = 0 THEN StripZeros(q \div 10) ELSE q

\* The exponent field of the scientific notation: a sign and at least two digits.
ExpText(x) ==
    (IF x < 0 THEN <<45>> ELSE <<43>>)
        \o (IF Abs(x) < 10 THEN <<48>> ELSE <<>>) \o DecText(Abs(x))

\* oss << std::setprecision(p) << std::noshowpoint << num for the non-zero
\* decimal m * 10^e: the default float field (%g): p significant digits, no
\* trailing zeros, scientific notation when the decimal exponent is below -4 or
\* at least p.  A decimal that lies exactly half way between two p-digit
\* neighbours is rounded to even here; the stream rounds the double's binary
\* expansion, so the inputs of the model avoid exact ties.
FormatG(m, e, p0) ==
    LET p == IF p0 <= 0 THEN 1 ELSE p0
        a == Abs(m)
        nd == NumDigits(a)
        x0 == nd + e - 1
        drop == nd - p
        q0 == IF drop > 0 THEN a \div Pow(10, drop) ELSE a
        r == IF drop > 0 THEN a % Pow(10, drop) ELSE 0
        half == IF drop > 0 THEN 5 * Pow(10, drop - 1) ELSE 1
        up == r > half \/ (r = half /\ q0 % 2 = 1)
        q1 == IF up THEN q0 + 1 ELSE q0
        carry == drop > 0 /\ q1 = Pow(10, p)
        x == IF carry THEN x0 + 1 ELSE x0
        ds == DecText(StripZeros(q1))
        k == Len(ds)
        sign == IF m < 0 THEN <<45>> ELSE <<>>
        body ==
            IF x < -4 \/ x >= p
            THEN <<ds[1]>> \o (IF k > 1 THEN <<46>> \o SubSeq(ds, 2, k) ELSE <<>>)
                     \o <<101>> \o ExpText(x)
            ELSE IF x >= 0
            THEN (IF k >= x + 1 THEN SubSeq(ds, 1, x + 1) ELSE ds \o Zeros(x + 1 - k))
                     \o (IF k > x + 1 THEN <<46>> \o SubSeq(ds, x + 2, k) ELSE <<>>)
            ELSE <<48, 46>> \o Zeros(-x - 1) \o ds
    IN  sign \o body

\* The digits of 2^63, which is LLONG_MAX converted to double (and -LLONG_MIN).
LLongLimit == <<57, 50, 50, 51, 51, 55, 50, 48, 51, 54, 56, 53, 52, 55, 55, 53, 56, 48, 56>>

\* a <= b for two runs of decimal digits without leading zeros.
DigitsLeq(a, b) ==
    Len(a) < Len(b) \/ (Len(a) = Len(b) /\ (a = b \/ KeyLess(a, b)))

\* The number branch of dump: an integral double within the long long range is
\* written through static_cast<long long>, every other one through FormatG.
\* (For a double beyond that range the cast in the condition is undefined; the
\* numbers of the model stay below it.)
DumpNumber(n, max_precision) ==
    LET digits == DecText(Abs(n.m)) \o Zeros(IF n.m = 0 THEN 0 ELSE n.e)
    IN  IF n.e >= 0 /\ DigitsLeq(digits, LLongLimit)
        THEN (IF n.m < 0 THEN <<45>> ELSE <<>>) \o digits
        ELSE FormatG(n.m, n.e, max_precision)

\* "\\u" << std::hex << std::setw(4) << std::setfill('0') << static_cast<int>(c):
\* a negative int is written under std::hex as its 32-bit two's complement.
HexEscape(c) ==
    LET h == IF c < 0 THEN Txt(<<"f", "f", "f", "f", "f", "f">>) \o HexText(c + 256)
             ELSE HexText(c)
    IN  <<92, 117>> \o Zeros(4 - Len(h)) \o h

\* One byte of a String in dump: the switch on the char c and its default branch.
DumpChar(b) ==
    LET c == AsChar(b)
    IN  CASE c = 34 -> <<92, 34>>
          [] c = 92 -> <<92, 92>>
          [] c = 8 -> <<92, 98>>
          [] c = 12 -> <<92, 102>>
          [] c = 10 -> <<92, 110>>
          [] c = 13 -> <<92, 114>>
          [] c = 9 -> <<92, 116>>
          [] OTHER -> IF c < 32 \/ c = 127 THEN HexEscape(c) ELSE <<b>>

RECURSIVE DumpChars(_)
DumpChars(s) == IF s = <<>> THEN <<>> ELSE DumpChar(Head(s)) \o DumpChars(Tail(s))

\* The string branch of dump.
DumpString(s) == <<34>> \o DumpChars(s) \o <<34>>

RECURSIVE dump(_, _, _, _, _), DumpElems(_, _, _, _, _, _), DumpPairs(_, _, _, _, _, _, _)

\* The loop of the array branch over the elements from position i on.
DumpElems(a, i, pretty, indent, indent_size, max_precision) ==
    IF i > Len(a) THEN <<>>
    ELSE (IF i > 1 THEN <<44>> ELSE <<>>)
            \o (IF pretty THEN <<10>> \o Spaces(indent + indent_size) ELSE <<>>)
            \o dump(a[i], pretty, indent + indent_size, indent_size, max_precision)
            \o DumpElems(a, i + 1, pretty, indent, indent_size, max_precision)

\* The loop of the object branch over the keys ks from position i on: the key
\* is written between quotes as it is stored.
DumpPairs(f, ks, i, pretty, indent, indent_size, max_precision) ==
    IF i > Len(ks) THEN <<>>
    ELSE (IF i > 1 THEN <<44>> ELSE <<>>)
            \o (IF pretty THEN <<10>> \o Spaces(indent + indent_size) ELSE <<>>)
            \o <<34>> \o ks[i] \o <<34, 58>> \o (IF pretty THEN <<32>> ELSE <<>>)
            \o dump(f[ks[i]], pretty, indent + indent_size, indent_size, max_precision)
            \o DumpPairs(f, ks, i + 1, pretty, indent, indent_size, max_precision)

\* JSON::dump(pretty, indent, indent_size, max_precision)
dump(j, pretty, indent, indent_size, max_precision) ==
    CASE is_null(j) -> Txt(<<"n", "u", "l", "l">>)
      [] is_bool(j) -> IF j.v THEN Txt(<<"t", "r", "u", "e">>) ELSE Txt(<<"f", "a", "l", "s", "e">>)
      [] is_number(j) -> DumpNumber(j.v, max_precision)
      [] is_string(j) -> DumpString(j.v)
      [] is_array(j) ->
            <<91>> \o DumpElems(j.v, 1, pretty, indent, indent_size, max_precision)
                \o (IF pretty /\ j.v # <<>> THEN <<10>> \o Spaces(indent) ELSE <<>>)
                \o <<93>>
      [] is_object(j) ->
            <<123>> \o DumpPairs(j.v, MapKeys(j.v), 1, pretty, indent, indent_size, max_precision)
                \o (IF pretty /\ DOMAIN j.v # {} THEN <<10>> \o Spaces(indent) ELSE <<>>)
                \o <<125>>

\* ---------------------------------------------------------------- parse

\* What a parse function leaves behind: the cursor idx (0-based, as in the
\* code), and either the value it returns or the fact that it threw.
Ok(idx, val) == [err |-> FALSE, idx |-> idx, val |-> val]
Fail(idx) == [err |-> TRUE, idx |-> idx, val |-> Null]

RECURSIVE skip_ws(_, _)
skip_ws(s, idx) ==
    IF idx < Len(s) /\ IsSpace(At(s, idx)) THEN skip_ws(s, idx + 1) ELSE idx

RECURSIVE SkipDigits(_, _)
\* while(idx<s.size() && std::isdigit(s[idx])) idx++;
SkipDigits(s, idx) ==
    IF idx < Len(s) /\ IsDigit(At(s, idx)) THEN SkipDigits(s, idx + 1) ELSE idx

RECURSIVE DigitsVal(_)
DigitsVal(ds) ==
    IF ds = <<>> THEN 0 ELSE 10 * DigitsVal(SubSeq(ds, 1, Len(ds) - 1)) + (ds[Len(ds)] - 48)

\* The largest decimal exponent of a finite double; std::stod throws
\* std::out_of_range beyond it (and below its negation, on underflow).
MaxExp10 == 308

\* std::stod on a literal the number grammar has matched: ip, fp and ep are the
\* digits of the integer part, the fraction and the exponent.
Stod(neg, ip, fp, eneg, ep) ==
    LET m == DigitsVal(ip \o fp)
        x == IF eneg THEN -DigitsVal(ep) ELSE DigitsVal(ep)
        n == Normal(IF neg THEN -m ELSE m, x - Len(fp))
        mag == NumDigits(Abs(n.m)) + n.e - 1
    IN  [ok |-> n.m = 0 \/ (mag <= MaxExp10 /\ mag >= -MaxExp10), val |-> n]

\* The integer part read from the digit at i1 with leading zeros let through.
IntegerEndAny(s, i1) == SkipDigits(s, i1)

\* The integer part read from the digit at i1: a single 0, or a run of digits.
IntegerEnd(s, i1) == IF At(s, i1) = 48 THEN i1 + 1 ELSE SkipDigits(s, i1)

parse_number(s, idx) ==
    LET start == idx
        neg == At(s, idx) = 45
        i1 == IF neg THEN idx + 1 ELSE idx
    IN  IF i1 >= Len(s) \/ ~IsDigit(At(s, i1)) THEN Fail(i1)
        ELSE
        LET i2 == IntegerEnd(s, i1)
            dot == i2 < Len(s) /\ At(s, i2) = 46
            i3 == IF dot THEN i2 + 1 ELSE i2
        IN  IF dot /\ (i3 >= Len(s) \/ ~IsDigit(At(s, i3))) THEN Fail(i3)
            ELSE
            LET i4 == IF dot THEN SkipDigits(s, i3) ELSE i2
                ex == i4 < Len(s) /\ (At(s, i4) = 101 \/ At(s, i4) = 69)
                i5 == i4 + 1
                sg == ex /\ i5 < Len(s) /\ (At(s, i5) = 43 \/ At(s, i5) = 45)
                i6 == IF sg THEN i5 + 1 ELSE i5
            IN  IF ex /\ (i6 >= Len(s) \/ ~IsDigit(At(s, i6))) THEN Fail(i6)
                ELSE
                LET i7 == IF ex THEN SkipDigits(s, i6) ELSE i4
                    d == Stod(neg, SubSeq(s, i1 + 1, i2),
                              IF dot THEN SubSeq(s, i3 + 1, i4) ELSE <<>>,
                              sg /\ At(s, i5) = 45,
                              IF ex THEN SubSeq(s, i6 + 1, i7) ELSE <<>>)
                IN  IF d.ok THEN Ok(i7, [t |-> "num", v |-> d.val]) ELSE Fail(i7)

parse_null(s, idx) ==
    IF idx + 4 > Len(s) \/ Substr(s, idx, 4) # Txt(<<"n", "u", "l", "l">>)
    THEN Fail(idx) ELSE Ok(idx + 4, Null)

parse_bool(s, idx) ==
    IF idx + 4 <= Len(s) /\ Substr(s, idx, 4) = Txt(<<"t", "r", "u", "e">>)
    THEN Ok(idx + 4, Bool(TRUE))
    ELSE IF idx + 5 <= Len(s) /\ Substr(s, idx, 5) = Txt(<<"f", "a", "l", "s", "e">>)
    THEN Ok(idx + 5, Bool(FALSE))
    ELSE Fail(idx)

RECURSIVE HexRun(_, _, _)
\* The value of the hexadecimal digits of t from position i (1-based) on, after acc.
HexRun(t, i, acc) ==
    IF i <= Len(t) /\ IsHex(t[i]) THEN HexRun(t, i + 1, 16 * acc + HexVal(t[i])) ELSE acc

RECURSIVE SkipSpaces1(_, _)
SkipSpaces1(t, i) == IF i <= Len(t) /\ IsSpace(t[i]) THEN SkipSpaces1(t, i + 1) ELSE i

\* strtol in base 16 once the leading white space is skipped, at position i0
\* (1-based) of t: an optional sign, an optional 0x, then as many hexadecimal
\* digits as there are.
Strtol16(t, i0) ==
    LET sg == i0 <= Len(t) /\ (t[i0] = 43 \/ t[i0] = 45)
        i1 == IF sg THEN i0 + 1 ELSE i0
        px == i1 + 2 <= Len(t) /\ t[i1] = 48 /\ (t[i1 + 1] = 120 \/ t[i1 + 1] = 88)
                 /\ IsHex(t[i1 + 2])
        i2 == IF px THEN i1 + 2 ELSE i1
        v == HexRun(t, i2, 0)
    IN  [ok |-> i2 <= Len(t) /\ IsHex(t[i2]),
         val |-> IF sg /\ t[i0] = 45 THEN -v ELSE v]

\* std::stoi(t, nullptr, 16), that is strtol: leading white space, an optional
\* sign, an optional 0x, then as many hexadecimal digits as there are; it
\* throws std::invalid_argument only when no digit can be converted.
Stoi16(t) == Strtol16(t, SkipSpaces1(t, 1))

\* encode_utf8(res, codepoint): the bytes appended to res.
encode_utf8(codepoint) ==
    IF codepoint <= 127 THEN <<codepoint % 256>>
    ELSE IF codepoint <= 2047
    THEN <<192 + (codepoint \div 64), 128 + (codepoint % 64)>>
    ELSE IF codepoint <= 65535
    THEN <<224 + (codepoint \div 4096), 128 + ((codepoint \div 64) % 64), 128 + (codepoint % 64)>>
    ELSE IF codepoint <= 1114111
    THEN <<240 + (codepoint \div 262144), 128 + ((codepoint \div 4096) % 64),
           128 + ((codepoint \div 64) % 64), 128 + (codepoint % 64)>>
    ELSE <<>>

\* The low surrogate of case 'u' with any code unit taken for a low surrogate.
LowSurrogateAny(cp, i4, lo) ==
    IF ~lo.ok THEN Fail(i4)
    ELSE Ok(i4 + 6, encode_utf8(65536 + (cp.val - 55296) * 1024 + (lo.val - 56320)))

\* The low surrogate of case 'u': cp is the high surrogate, i4 the cursor past
\* its digits, lo what std::stoi has made of the four characters after \u.
LowSurrogate(cp, i4, lo) ==
    IF ~lo.ok THEN Fail(i4)
    ELSE IF lo.val < 56320 \/ lo.val > 57343 THEN Fail(i4 + 6)
    ELSE Ok(i4 + 6, encode_utf8(65536 + (cp.val - 55296) * 1024 + (lo.val - 56320)))

\* case 'u' once std::stoi has returned cp, the cursor i4 past the four characters.
CodeUnit(s, i4, cp) ==
    IF ~cp.ok THEN Fail(i4 - 4)
    ELSE IF cp.val >= 55296 /\ cp.val <= 56319
    THEN IF i4 + 6 > Len(s) \/ Substr(s, i4, 2) # <<92, 117>> THEN Fail(i4)
         ELSE LowSurrogate(cp, i4, Stoi16(Substr(s, i4 + 2, 4)))
    ELSE IF cp.val >= 56320 /\ cp.val <= 57343 THEN Fail(i4)
    ELSE Ok(i4, encode_utf8(cp.val))

\* case 'u' of parse_string, the cursor idx just past the u: val holds the
\* bytes appended to res.
UnicodeEscape(s, idx) ==
    IF idx + 4 > Len(s) THEN Fail(idx)
    ELSE CodeUnit(s, idx + 4, Stoi16(Substr(s, idx, 4)))

RECURSIVE StringLoop(_, _, _), StringUnicode(_, _, _)
\* The loop of parse_string after case 'u' has decoded u.
StringUnicode(s, u, res) ==
    IF u.err THEN Fail(u.idx) ELSE StringLoop(s, u.idx, res \o u.val)

\* The while loop of parse_string with the cursor at idx and res decoded so far.
StringLoop(s, idx, res) ==
    IF ~(idx < Len(s))
    THEN IF idx > Len(s) THEN Fail(idx) ELSE Ok(idx, Str(res))
    ELSE
    LET c == At(s, idx)
        i1 == idx + 1
    IN  IF c = 34 THEN (IF i1 > Len(s) THEN Fail(i1) ELSE Ok(i1, Str(res)))
        ELSE IF c = 92
        THEN IF i1 >= Len(s) THEN Fail(i1)
             ELSE
             LET esc == At(s, i1)
                 i2 == i1 + 1
             IN  CASE esc = 34 -> StringLoop(s, i2, Append(res, 34))
                   [] esc = 92 -> StringLoop(s, i2, Append(res, 92))
                   [] esc = 47 -> StringLoop(s, i2, Append(res, 47))
                   [] esc = 98 -> StringLoop(s, i2, Append(res, 8))
                   [] esc = 102 -> StringLoop(s, i2, Append(res, 12))
                   [] esc = 110 -> StringLoop(s, i2, Append(res, 10))
                   [] esc = 114 -> StringLoop(s, i2, Append(res, 13))
                   [] esc = 116 -> StringLoop(s, i2, Append(res, 9))
                   [] esc = 117 -> StringUnicode(s, UnicodeEscape(s, i2), res)
                   [] OTHER -> Fail(i2)
        ELSE IF AsChar(c) < 32 THEN Fail(i1)
        ELSE StringLoop(s, i1, Append(res, c))

parse_string(s, idx) ==
    IF At(s, idx) # 34 THEN Fail(idx) ELSE StringLoop(s, idx + 1, <<>>)

RECURSIVE parse_value(_, _), parse_array(_, _), parse_object(_, _),
          ArrayLoop(_, _, _), ArrayElem(_, _, _), ArrayNext(_, _, _),
          ObjectLoop(_, _, _), ObjectKey(_, _, _), ObjectColon(_, _, _, _),
          ObjectValue(_, _, _, _), ObjectNext(_, _, _)

\* The while(true) loop of parse_array: one element.
ArrayLoop(s, idx, arr) == ArrayElem(s, parse_value(s, idx), arr)

\* ... parse_value has returned e: push_back, then the comma or the closing bracket.
ArrayElem(s, e, arr) ==
    IF e.err THEN Fail(e.idx) ELSE ArrayNext(s, skip_ws(s, e.idx), Append(arr, e.val))

\* ... with a closing bracket let through after a comma.
ArrayNextLenient(s, i1, arr1) ==
    IF i1 >= Len(s) THEN Fail(i1)
    ELSE IF At(s, i1) = 44
    THEN IF skip_ws(s, i1 + 1) < Len(s) /\ At(s, skip_ws(s, i1 + 1)) = 93
         THEN Ok(skip_ws(s, i1 + 1) + 1, Arr(arr1))
         ELSE ArrayLoop(s, skip_ws(s, i1 + 1), arr1)
    ELSE IF At(s, i1) = 93 THEN Ok(i1 + 1, Arr(arr1))
    ELSE Fail(i1)

ArrayNext(s, i1, arr1) ==
    IF i1 >= Len(s) THEN Fail(i1)
    ELSE IF At(s, i1) = 44 THEN ArrayLoop(s, skip_ws(s, i1 + 1), arr1)
    ELSE IF At(s, i1) = 93 THEN Ok(i1 + 1, Arr(arr1))
    ELSE Fail(i1)

parse_array(s, idx) ==
    IF At(s, idx) # 91 THEN Fail(idx)
    ELSE LET i1 == skip_ws(s, idx + 1)
         IN  IF i1 < Len(s) /\ At(s, i1) = 93 THEN Ok(i1 + 1, Arr(<<>>))
             ELSE ArrayLoop(s, i1, <<>>)

\* The while(true) loop of parse_object: up to the key.
ObjectLoop(s, idx, obj) ==
    LET i0 == skip_ws(s, idx)
    IN  IF i0 >= Len(s) \/ At(s, i0) # 34 THEN Fail(i0)
        ELSE ObjectKey(s, parse_string(s, i0), obj)

\* ... parse_string has returned key: up to the colon.
ObjectKey(s, key, obj) ==
    IF key.err THEN Fail(key.idx)
    ELSE ObjectColon(s, skip_ws(s, key.idx), key.val.v, obj)

\* ... the colon, then the value.
ObjectColon(s, i1, k, obj) ==
    IF i1 >= Len(s) \/ At(s, i1) # 58 THEN Fail(i1)
    ELSE ObjectValue(s, parse_value(s, i1 + 1), k, obj)

\* ... parse_value has returned val: obj[key] = val.
ObjectValue(s, val, k, obj) ==
    IF val.err THEN Fail(val.idx)
    ELSE ObjectNext(s, skip_ws(s, val.idx), MapPut(obj, k, val.val))

\* ... the comma or the closing brace.
ObjectNext(s, i2, obj1) ==
    IF i2 >= Len(s) THEN Fail(i2)
    ELSE IF At(s, i2) = 44 THEN ObjectLoop(s, skip_ws(s, i2 + 1), obj1)
    ELSE IF At(s, i2) = 125 THEN Ok(i2 + 1, Obj(obj1))
    ELSE Fail(i2)

parse_object(s, idx) ==
    IF At(s, idx) # 123 THEN Fail(idx)
    ELSE LET i1 == skip_ws(s, idx + 1)
         IN  IF i1 < Len(s) /\ At(s, i1) = 125 THEN Ok(i1 + 1, Obj(EmptyMap))
             ELSE ObjectLoop(s, i1, EmptyMap)

parse_value(s, idx0) ==
    LET idx == skip_ws(s, idx0)
    IN  IF idx >= Len(s) THEN Fail(idx)
        ELSE
        LET c == At(s, idx)
        IN  CASE c = 110 -> parse_null(s, idx)
              [] c = 116 \/ c = 102 -> parse_bool(s, idx)
              [] c = 34 -> parse_string(s, idx)
              [] c = 91 -> parse_array(s, idx)
              [] c = 123 -> parse_object(s, idx)
              [] c = 45 \/ IsDigit(c) -> parse_number(s, idx)
              [] OTHER -> Fail(idx)

\* The end of JSON::parse, parse_value having returned r: only white space may follow.
ParseEnd(s, r) ==
    IF r.err THEN Fail(r.idx)
    ELSE IF skip_ws(s, r.idx) < Len(s) THEN Fail(skip_ws(s, r.idx))
    ELSE Ok(skip_ws(s, r.idx), r.val)

\* JSON::parse(s): the value, or the exception with the cursor position in it.
parse(s) == ParseEnd(s, parse_value(s, 0))

\* static bool is_valid(const std::string& s): parse(s) has not thrown.
is_valid(s) == ~parse(s).err

\* ---------------------------------------------------------------- accessors

\* What a member function leaves behind: the value *this holds afterwards (also
\* when it threw), whether it threw, and what it returned.
Done(self, val) == [err |-> FALSE, self |-> self, val |-> val]
Threw(self) == [err |-> TRUE, self |-> self, val |-> Null]

\* JSON& operator[](size_t idx); val is the element the returned reference names.
IndexAt(self, idx) ==
    LET s1 == IF is_null(self) THEN Arr(<<>>) ELSE self
    IN  IF ~is_array(s1) THEN Threw(s1)
        ELSE LET arr == IF idx >= Len(s1.v) THEN Resize(s1.v, idx + 1) ELSE s1.v
             IN  Done(Arr(arr), arr[idx + 1])

\* An operator[](key) that turns whatever is not an Object into an empty Object.
IndexKeyCoerce(self, key) ==
    LET s1 == IF ~is_object(self) THEN Obj(EmptyMap) ELSE self
        obj == IF key \in DOMAIN s1.v THEN s1.v ELSE MapPut(s1.v, key, Null)
    IN  Done(Obj(obj), obj[key])

\* const JSON& operator[](size_t idx) const
IndexAtConst(self, idx) ==
    IF ~is_array(self) THEN Threw(self)
    ELSE IF idx >= Len(self.v) THEN Threw(self)
    ELSE Done(self, self.v[idx + 1])

\* const JSON& operator[](const std::string& key) const
IndexKeyConst(self, key) ==
    IF ~is_object(self) THEN Threw(self)
    ELSE IF key \notin DOMAIN self.v THEN Threw(self)
    ELSE Done(self, self.v[key])

\* JSON at(const std::string& key, const JSON& default_val = JSON()) const
at_default(self, key, default_val) ==
    IF ~is_object(self) THEN Done(self, default_val)
    ELSE Done(self, IF key \in DOMAIN self.v THEN self.v[key] ELSE default_val)

\* bool contains(const std::string& key) const
contains(self, key) ==
    IF ~is_object(self) THEN FALSE ELSE key \in DOMAIN self.v

\* size_t size() const
size(self) ==
    IF is_array(self) THEN Len(self.v)
    ELSE IF is_object(self) THEN Cardinality(DOMAIN self.v)
    ELSE IF is_string(self) THEN Len(self.v)
    ELSE 0

\* An operator[](key) that looks the key up as at() does, and inserts nothing.
IndexKeyLookup(self, key) ==
    LET s1 == IF is_null(self) THEN Obj(EmptyMap) ELSE self
    IN  IF ~is_object(s1) THEN Threw(s1)
        ELSE Done(s1, IF key \in DOMAIN s1.v THEN s1.v[key] ELSE Null)

\* JSON& operator[](const std::string& key); obj[key] inserts a Null under an absent key.
IndexKey(self, key) ==
    LET s1 == IF is_null(self) THEN Obj(EmptyMap) ELSE self
    IN  IF ~is_object(s1) THEN Threw(s1)
        ELSE LET obj == IF key \in DOMAIN s1.v THEN s1.v ELSE MapPut(s1.v, key, Null)
             IN  Done(Obj(obj), obj[key])

push_back(self, item) ==
    LET s1 == IF is_null(self) THEN Arr(<<>>) ELSE self
    IN  IF ~is_array(s1) THEN Threw(s1) ELSE Done(Arr(Append(s1.v, item)), Null)

push_front(self, item) ==
    LET s1 == IF is_null(self) THEN Arr(<<>>) ELSE self
    IN  IF ~is_array(s1) THEN Threw(s1) ELSE Done(Arr(<<item>> \o s1.v), Null)

\* A pop_back that, like push_back, makes an empty Array of Null before it looks.
pop_back_coerce(self) ==
    LET s1 == IF is_null(self) THEN Arr(<<>>) ELSE self
    IN  IF ~is_array(s1) THEN Threw(s1)
        ELSE IF s1.v = <<>> THEN Threw(s1)
        ELSE Done(Arr(SubSeq(s1.v, 1, Len(s1.v) - 1)), Null)

\* void pop_back()
pop_back(self) ==
    IF ~is_array(self) THEN Threw(self)
    ELSE IF self.v = <<>> THEN Threw(self)
    ELSE Done(Arr(SubSeq(self.v, 1, Len(self.v) - 1)), Null)

\* void insert(size_t index, const JSON& item)
insert(self, index, item) ==
    IF ~is_array(self) THEN Threw(self)
    ELSE IF index > Len(self.v) THEN Threw(self)
    ELSE Done(Arr(SubSeq(self.v, 1, index) \o <<item>>
                      \o SubSeq(self.v, index + 1, Len(self.v))), Null)

\* void erase(size_t index)
erase(self, index) ==
    IF ~is_array(self) THEN Threw(self)
    ELSE IF index >= Len(self.v) THEN Threw(self)
    ELSE Done(Arr(SubSeq(self.v, 1, index) \o SubSeq(self.v, index + 2, Len(self.v))), Null)

\* void erase(const std::string& key)
erase_key(self, key) ==
    IF ~is_object(self) THEN Threw(self)
    ELSE Done(Obj([k \in (DOMAIN self.v) \ {key} |-> self.v[k]]), Null)

\* ---------------------------------------------------------------- paths

\* The digits of INT_MAX: std::stoi throws std::out_of_range above it.
IntMax == <<50, 49, 52, 55, 52, 56, 51, 54, 52, 55>>

RECURSIVE StripLeadingZeros(_)
StripLeadingZeros(t) ==
    IF Len(t) > 1 /\ Head(t) = 48 THEN StripLeadingZeros(Tail(t)) ELSE t

\* std::stoi(t) on a run of decimal digits t: std::invalid_argument on the
\* empty run, std::out_of_range above INT_MAX.
Stoi10(t) ==
    LET ok == t # <<>> /\ DigitsLeq(StripLeadingZeros(t), IntMax)
    IN  [ok |-> ok, val |-> IF ok THEN DigitsVal(t) ELSE 0]

RECURSIVE SkipIdent(_, _)
\* while(i < path.size() && (std::isalnum(path[i]) || path[i]=='_')) i++;
SkipIdent(path, i) ==
    IF i < Len(path) /\ (IsAlnum(At(path, i)) \/ At(path, i) = 95)
    THEN SkipIdent(path, i + 1) ELSE i

RECURSIVE AtPathLoop(_, _, _)
\* The while loop of at_path with current pointing at the value cur.
AtPathLoop(cur, path, i) ==
    IF ~(i < Len(path)) THEN Done(cur, cur)
    ELSE
    LET c == At(path, i)
    IN  IF c = 46 THEN AtPathLoop(cur, path, i + 1)
        ELSE IF IsAlpha(c) \/ c = 95
        THEN LET j == SkipIdent(path, i)
                 key == SubSeq(path, i + 1, j)
             IN  IF ~is_object(cur) THEN Done(cur, Null)
                 ELSE IF key \notin DOMAIN cur.v THEN Done(cur, Null)
                 ELSE AtPathLoop(cur.v[key], path, j)
        ELSE IF c = 91
        THEN LET start == i + 1
                 j == SkipDigits(path, start)
             IN  IF j >= Len(path) \/ At(path, j) # 93 THEN Threw(cur)
                 ELSE
                 LET idx == Stoi10(SubSeq(path, start + 1, j))
                 IN  IF ~idx.ok THEN Threw(cur)
                     ELSE IF ~is_array(cur) THEN Done(cur, Null)
                     ELSE IF idx.val < 0 \/ idx.val >= Len(cur.v) THEN Done(cur, Null)
                     ELSE AtPathLoop(cur.v[idx.val + 1], path, j + 1)
        ELSE Threw(cur)

\* An at_path that returns the value it has reached where a segment does not resolve.
at_path_current(self, path) ==
    LET r == AtPathLoop(self, path, 0)
    IN  [err |-> r.err, val |-> IF r.err THEN Null ELSE r.self, self |-> self]

\* JSON at_path(const std::string& path) const: err, or the value returned.
at_path(self, path) ==
    LET r == AtPathLoop(self, path, 0)
    IN  [err |-> r.err, val |-> r.val, self |-> self]

\* bool has_path(const std::string& path) const
has_path(self, path) ==
    LET r == at_path(self, path)
    IN  [err |-> r.err, val |-> ~r.err /\ ~is_null(r.val)]

KeyPart(key) == [key |-> key, index |-> -1]
IndexPart(idx) == [key |-> <<>>, index |-> idx]

RECURSIVE PathParts(_, _, _)
\* The first loop of set_path: the path_parts of the path, or the exception.
PathParts(path, i, parts) ==
    IF ~(i < Len(path)) THEN [err |-> FALSE, parts |-> parts]
    ELSE
    LET c == At(path, i)
    IN  IF c = 46 THEN PathParts(path, i + 1, parts)
        ELSE IF IsAlpha(c) \/ c = 95
        THEN LET j == SkipIdent(path, i)
             IN  PathParts(path, j, Append(parts, KeyPart(SubSeq(path, i + 1, j))))
        ELSE IF c = 91
        THEN LET start == i + 1
                 j == SkipDigits(path, start)
             IN  IF j >= Len(path) \/ At(path, j) # 93 THEN [err |-> TRUE, parts |-> parts]
                 ELSE
                 LET idx == Stoi10(SubSeq(path, start + 1, j))
                 IN  IF ~idx.ok THEN [err |-> TRUE, parts |-> parts]
                     ELSE PathParts(path, j + 1, Append(parts, IndexPart(idx.val)))
        ELSE [err |-> TRUE, parts |-> parts]

\* A set_path that turns whatever it finds under a key segment into an Object.
ObjectForKeyAny(cur) == IF ~is_object(cur) THEN Obj(EmptyMap) ELSE cur

\* if (current->is_null()) *current = std::map<std::string, JSON>{};
ObjectForKey(cur) == IF is_null(cur) THEN Obj(EmptyMap) ELSE cur

\* if (current->is_null()) *current = std::vector<JSON>{};
ArrayForIndex(cur) == IF is_null(cur) THEN Arr(<<>>) ELSE cur

RECURSIVE SetWalk(_, _, _, _)
\* The second loop of set_path from part j on, current pointing at the value
\* cur: the value cur holds afterwards.  What the loop has created before it
\* throws stays in the document.
SetWalk(cur, parts, j, val) ==
    LET is_last == j = Len(parts)
        key == parts[j].key
        index == parts[j].index
    IN  IF index = -1
        THEN LET c1 == ObjectForKey(cur)
             IN  IF ~is_object(c1) THEN Threw(c1)
                 ELSE IF is_last THEN Done(Obj(MapPut(c1.v, key, val)), Null)
                 ELSE LET c2 == IndexKey(c1, key)
                          r == SetWalk(c2.val, parts, j + 1, val)
                      IN  [err |-> r.err, self |-> Obj(MapPut(c2.self.v, key, r.self)),
                           val |-> Null]
        ELSE LET c1 == ArrayForIndex(cur)
             IN  IF ~is_array(c1) THEN Threw(c1)
                 ELSE
                 LET arr == IF Len(c1.v) <= index THEN Resize(c1.v, index + 1) ELSE c1.v
                 IN  IF is_last
                     THEN Done(Arr([arr EXCEPT ![index + 1] = val]), Null)
                     ELSE LET r == SetWalk(arr[index + 1], parts, j + 1, val)
                          IN  [err |-> r.err,
                               self |-> Arr([arr EXCEPT ![index + 1] = r.self]),
                               val |-> Null]

\* void set_path(const std::string& path, const JSON& val)
set_path(self, path, val) ==
    LET p == PathParts(path, 0, <<>>)
    IN  IF p.err THEN Threw(self)
        ELSE IF p.parts = <<>> THEN Done(self, Null)
        ELSE SetWalk(self, p.parts, 1, val)

\* ---------------------------------------------------------------- merge, flatten

RECURSIVE MergeLoop(_, _, _, _)
\* for (const auto& [key, val] : other_obj) obj[key] = val;
MergeLoop(obj, other_obj, ks, i) ==
    IF i > Len(ks) THEN obj
    ELSE MergeLoop(MapPut(obj, ks[i], other_obj[ks[i]]), other_obj, ks, i + 1)

\* A merge that keeps the left operand's value under a key both operands have.
merge_keep_left(self, other) ==
    IF ~is_object(self) \/ ~is_object(other) THEN Threw(self)
    ELSE Done(Obj([k \in (DOMAIN self.v) \cup (DOMAIN other.v) |->
                      IF k \in DOMAIN self.v THEN self.v[k] ELSE other.v[k]]), Null)

\* void merge(const JSON& other)
merge(self, other) ==
    IF ~is_object(self) \/ ~is_object(other) THEN Threw(self)
    ELSE Done(Obj(MergeLoop(self.v, other.v, MapKeys(other.v), 1)), Null)

RECURSIVE flatten_recursive(_, _, _, _), FlattenPairs(_, _, _, _, _, _), FlattenElems(_, _, _, _, _)

\* The loop of flatten_recursive over the entries of an object.
FlattenPairs(f, ks, i, prefix, result, sep) ==
    IF i > Len(ks) THEN result
    ELSE
    LET key == ks[i]
        value == f[key]
        new_key == IF prefix = <<>> THEN key ELSE prefix \o sep \o key
        r1 == IF is_object(value) \/ is_array(value)
              THEN flatten_recursive(value, new_key, result, sep)
              ELSE MapPut(result, new_key, value)
    IN  FlattenPairs(f, ks, i + 1, prefix, r1, sep)

\* The loop of flatten_recursive over the elements of an array.
FlattenElems(a, i, prefix, result, sep) ==
    IF i > Len(a) THEN result
    ELSE
    LET new_key == prefix \o <<91>> \o IntText(i - 1) \o <<93>>
        r1 == IF is_object(a[i]) \/ is_array(a[i])
              THEN flatten_recursive(a[i], new_key, result, sep)
              ELSE MapPut(result, new_key, a[i])
    IN  FlattenElems(a, i + 1, prefix, r1, sep)

\* flatten_recursive(obj, prefix, result, sep): the entries of result afterwards.
flatten_recursive(obj, prefix, result, sep) ==
    IF is_object(obj) THEN FlattenPairs(obj.v, MapKeys(obj.v), 1, prefix, result, sep)
    ELSE IF is_array(obj) THEN FlattenElems(obj.v, 1, prefix, result, sep)
    ELSE MapPut(result, prefix, obj)

\* JSON flattened(const std::string& separator = ".") const
flattened(self, separator) == Obj(flatten_recursive(self, <<>>, EmptyMap, separator))


\* ---------------------------------------------------------------- xml
\* struct Node: name, text_content, attributes (a std::map, here a function
\* from keys to values), child_nodes (a std::vector, here a sequence).

\* Node(name) and Node(name, text)
NewNode(name) == [name |-> name, text_content |-> <<>>, attributes |-> EmptyMap, child_nodes |-> <<>>]
NewTextNode(name, text) == [NewNode(name) EXCEPT !.text_content = text]

set_attribute(n, key, value) == [n EXCEPT !.attributes = MapPut(@, key, value)]
set_text(n, text) == [n EXCEPT !.text_content = text]
\* add_child putting the child before the others.
add_child_front(n, child) == [n EXCEPT !.child_nodes = <<child>> \o @]

add_child(n, child) == [n EXCEPT !.child_nodes = Append(@, child)]

\* The position in child_nodes of the first child called child_name, 0 if none.
FirstChild(n, child_name) ==
    LET at == { i \in 1..Len(n.child_nodes) : n.child_nodes[i].name = child_name }
    IN  IF at = {} THEN 0 ELSE CHOOSE i \in at : \A j \in at : i <= j

\* Node& operator[](child_name): the first child of that name, or a new child
\* emplaced at the back; self is the node afterwards, val the child referred to.
IndexChild(n, child_name) ==
    IF FirstChild(n, child_name) # 0
    THEN Done(n, n.child_nodes[FirstChild(n, child_name)])
    ELSE Done(add_child(n, NewNode(child_name)), NewNode(child_name))

RECURSIVE EncodeFrom(_, _)
EncodeFrom(text, i) ==
    IF i > Len(text) THEN <<>>
    ELSE (CASE text[i] = 60 -> Txt(<<"&", "l", "t", ";">>)
            [] text[i] = 62 -> Txt(<<"&", "g", "t", ";">>)
            [] text[i] = 38 -> Txt(<<"&", "a", "m", "p", ";">>)
            [] text[i] = 34 -> Txt(<<"&", "q", "u", "o", "t", ";">>)
            [] text[i] = 39 -> Txt(<<"&", "a", "p", "o", "s", ";">>)
            [] OTHER -> <<text[i]>>) \o EncodeFrom(text, i + 1)

encode_text(text) == EncodeFrom(text, 1)

RECURSIVE DumpAttributes(_, _)
\* for (const auto& [k, v] : attributes), ks the keys in the order of the map
DumpAttributes(attrs, ks) ==
    IF ks = <<>> THEN <<>>
    ELSE <<32>> \o Head(ks) \o <<61, 34>> \o encode_text(attrs[Head(ks)]) \o <<34>>
             \o DumpAttributes(attrs, Tail(ks))

Newline(pretty) == IF pretty THEN <<10>> ELSE <<>>

RECURSIVE dump_recursive(_, _, _, _), DumpChildren(_, _, _, _)
DumpChildren(cs, pretty, indent_level, indent_size) ==
    IF cs = <<>> THEN <<>>
    ELSE dump_recursive(Head(cs), pretty, indent_level, indent_size)
             \o DumpChildren(Tail(cs), pretty, indent_level, indent_size)

dump_recursive(n, pretty, indent_level, indent_size) ==
    LET indent == IF pretty THEN Spaces(indent_level * indent_size) ELSE <<>>
        open == indent \o <<60>> \o n.name \o DumpAttributes(n.attributes, MapKeys(n.attributes))
        has_children == n.child_nodes # <<>>
        inner == IF pretty /\ has_children THEN Spaces((indent_level + 1) * indent_size) ELSE <<>>
    IN  IF n.text_content = <<>> /\ n.child_nodes = <<>>
        THEN open \o <<32, 47, 62>> \o Newline(pretty)
        ELSE open \o <<62>> \o Newline(pretty /\ has_children)
                 \o (IF n.text_content # <<>>
                     THEN inner \o encode_text(n.text_content) \o Newline(pretty /\ has_children)
                     ELSE <<>>)
                 \o DumpChildren(n.child_nodes, pretty, indent_level + 1, indent_size)
                 \o (IF pretty /\ has_children THEN indent ELSE <<>>)
                 \o <<60, 47>> \o n.name \o <<62>> \o Newline(pretty)

\* std::string dump(bool pretty = true, int indent_level = 0, int indent_size = 2)
xml_dump(n, pretty) == dump_recursive(n, pretty, 0, 2)

xml_skip_ws(s, idx) == skip_ws(s, idx)

RECURSIVE Find(_, _, _)
\* s.find(c, from): the offset of the first c at or after from, -1 for npos.
Find(s, c, from) ==
    IF from >= Len(s) THEN -1 ELSE IF At(s, from) = c THEN from ELSE Find(s, c, from + 1)

RECURSIVE SkipUntil(_, _, _)
\* while (idx < s.size() && s[idx] != c) idx++
SkipUntil(s, c, idx) ==
    IF idx < Len(s) /\ At(s, idx) # c THEN SkipUntil(s, c, idx + 1) ELSE idx

RECURSIVE skip_ws_and_prolog(_, _)
skip_ws_and_prolog(s, idx) ==
    IF idx >= Len(s) THEN Ok(idx, <<>>)
    ELSE LET i == xml_skip_ws(s, idx)
         IN  IF i + 1 >= Len(s) \/ At(s, i) # 60 THEN Ok(i, <<>>)
             ELSE IF At(s, i + 1) = 63 \/ At(s, i + 1) = 33
             THEN IF Find(s, 62, i) = -1 THEN Fail(i) ELSE skip_ws_and_prolog(s, Find(s, 62, i) + 1)
             ELSE Ok(i, <<>>)

\* parse_entity with no entity known.
parse_entity_raw(entity) == <<38>> \o entity \o <<59>>

parse_entity(entity) ==
    CASE entity = Txt(<<"l", "t">>) -> <<60>>
      [] entity = Txt(<<"g", "t">>) -> <<62>>
      [] entity = Txt(<<"a", "m", "p">>) -> <<38>>
      [] entity = Txt(<<"q", "u", "o", "t">>) -> <<34>>
      [] entity = Txt(<<"a", "p", "o", "s">>) -> <<39>>
      [] OTHER -> <<38>> \o entity \o <<59>>

RECURSIVE DecodeFrom(_, _)
\* The while loop of decode_text, i the offset into text.
DecodeFrom(text, i) ==
    IF i >= Len(text) THEN <<>>
    ELSE IF At(text, i) = 38
    THEN IF Find(text, 59, i) # -1
         THEN parse_entity(Substr(text, i + 1, Find(text, 59, i) - i - 1))
                  \o DecodeFrom(text, Find(text, 59, i) + 1)
         ELSE <<38>> \o DecodeFrom(text, i + 1)
    ELSE <<At(text, i)>> \o DecodeFrom(text, i + 1)

decode_text(text) == DecodeFrom(text, 0)

\* The characters of a tag name, and of an attribute key.
IsNameChar(b) == IsAlnum(b) \/ b = 95 \/ b = 58 \/ b = 45
IsKeyChar(b) == IsAlnum(b) \/ b = 95 \/ b = 58

RECURSIVE NameEnd(_, _), KeyEnd(_, _)
NameEnd(s, idx) == IF idx < Len(s) /\ IsNameChar(At(s, idx)) THEN NameEnd(s, idx + 1) ELSE idx
KeyEnd(s, idx) == IF idx < Len(s) /\ IsKeyChar(At(s, idx)) THEN KeyEnd(s, idx + 1) ELSE idx

\* node.text_content += decode_text(s.substr(content_start, idx - content_start))
\* if idx > content_start
AddText(node, s, content_start, idx) ==
    IF idx > content_start
    THEN [node EXCEPT !.text_content = @ \o decode_text(Substr(s, content_start, idx - content_start))]
    ELSE node

\* The closing tag compared with the name of the node without regard to case.
Lower(t) == [i \in 1..Len(t) |-> IF t[i] >= 65 /\ t[i] <= 90 THEN t[i] + 32 ELSE t[i]]
ClosingNameAnyCase(s, ns, ne, node) ==
    IF Lower(Substr(s, ns, ne - ns)) # Lower(node.name) THEN Fail(ne) ELSE Ok(ne + 1, node)

\* The closing tag: everything between </ and the next > is compared with
\* the name of the node; ne is the offset of that > or the end of the text.
ClosingName(s, ns, ne, node) ==
    IF Substr(s, ns, ne - ns) # node.name THEN Fail(ne) ELSE Ok(ne + 1, node)

ClosingTag(s, idx, node) ==
    IF idx + 1 >= Len(s) \/ At(s, idx) # 60 \/ At(s, idx + 1) # 47 THEN Fail(idx)
    ELSE ClosingName(s, idx + 2, SkipUntil(s, 62, idx + 2), node)

RECURSIVE parse_node(_, _), NodeName(_, _), AttrLoop(_, _, _), AttrKey(_, _, _, _),
          AttrEq(_, _, _, _), AttrQuote(_, _, _, _), AttrValue(_, _, _, _, _),
          NodeTag(_, _, _), ContentLoop(_, _, _, _), ContentStep(_, _, _, _),
          ContentChild(_, _, _)

\* The child parse_node has returned, or its exception.
ContentChild(s, c, node) ==
    IF c.err THEN Fail(c.idx)
    ELSE ContentLoop(s, c.idx, c.idx, [node EXCEPT !.child_nodes = Append(@, c.val)])

\* One turn of the content loop after skip_ws has moved the cursor to i.
ContentStep(s, i, content_start, node) ==
    IF i + 1 < Len(s) /\ At(s, i) = 60 /\ At(s, i + 1) = 47
    THEN ClosingTag(s, i, AddText(node, s, content_start, i))
    ELSE IF i < Len(s) /\ At(s, i) = 60
    THEN ContentChild(s, parse_node(s, i), AddText(node, s, content_start, i))
    ELSE ContentLoop(s, i + 1, content_start, node)

\* while (idx < s.size()) over text and children, then the closing tag.
ContentLoop(s, idx, content_start, node) ==
    IF idx < Len(s) THEN ContentStep(s, xml_skip_ws(s, idx), content_start, node)
    ELSE ClosingTag(s, idx, AddText(node, s, content_start, idx))

\* After the attributes: the end of a self-closing tag or of an opening tag.
NodeTag(s, idx, node) ==
    IF idx >= Len(s) THEN Fail(idx)
    ELSE IF At(s, idx) = 47
    THEN IF idx + 1 >= Len(s) \/ At(s, idx + 1) # 62 THEN Fail(idx + 1) ELSE Ok(idx + 2, node)
    ELSE IF At(s, idx) # 62 THEN Fail(idx)
    ELSE ContentLoop(s, idx + 1, idx + 1, node)

\* The value from vs to the matching quote at ve (or the end of the text).
AttrValue(s, key, vs, ve, node) ==
    AttrLoop(s, xml_skip_ws(s, ve + 1), set_attribute(node, key, decode_text(Substr(s, vs, ve - vs))))

\* char quote = s[idx], the cursor i past the = and the whitespace after it;
\* s[s.size()] is the null character.
AttrQuote(s, key, i, node) ==
    IF i >= Len(s) \/ (At(s, i) # 34 /\ At(s, i) # 39) THEN Fail(i)
    ELSE AttrValue(s, key, i + 1, SkipUntil(s, At(s, i), i + 1), node)

AttrEq(s, key, i, node) ==
    IF i >= Len(s) \/ At(s, i) # 61 THEN Fail(i) ELSE AttrQuote(s, key, xml_skip_ws(s, i + 1), node)

AttrKey(s, key_start, key_end, node) ==
    AttrEq(s, Substr(s, key_start, key_end - key_start), xml_skip_ws(s, key_end), node)

\* while (idx < s.size() && s[idx] != '>' && s[idx] != '/') over the attributes
AttrLoop(s, idx, node) ==
    IF idx < Len(s) /\ At(s, idx) # 62 /\ At(s, idx) # 47
    THEN AttrKey(s, idx, KeyEnd(s, idx), node)
    ELSE NodeTag(s, idx, node)

\* The tag name from name_start on, whatever its length.
NodeName(s, name_start) ==
    AttrLoop(s, xml_skip_ws(s, NameEnd(s, name_start)),
             NewNode(Substr(s, name_start, NameEnd(s, name_start) - name_start)))

parse_node(s, idx) ==
    IF xml_skip_ws(s, idx) >= Len(s) \/ At(s, xml_skip_ws(s, idx)) # 60
    THEN Fail(xml_skip_ws(s, idx))
    ELSE NodeName(s, xml_skip_ws(s, idx) + 1)

\* Node::parse after parse_node has returned r.
XmlEnd(s, r) ==
    IF r.err THEN Fail(r.idx)
    ELSE IF xml_skip_ws(s, r.idx) < Len(s) THEN Fail(xml_skip_ws(s, r.idx))
    ELSE Ok(xml_skip_ws(s, r.idx), r.val)

\* Node::parse after skip_ws_and_prolog has returned p.
XmlRoot(s, p) == IF p.err THEN Fail(p.idx) ELSE XmlEnd(s, parse_node(s, p.idx))

\* static Node parse(const std::string& s)
xml_parse(s) == XmlRoot(s, skip_ws_and_prolog(s, 0))

\* ---------------------------------------------------------------- inputs

\* The largest number of values (nodes) of a document the calls may build.
MaxNodes == 5

\* The largest index the callers pass to operator[](size_t).
MaxIndex == 2

RECURSIVE Size(_), SizeSeq(_, _), SizeMap(_, _)
\* The number of JSON values in the tree j.
Size(j) ==
    IF is_array(j) THEN 1 + SizeSeq(j.v, 1)
    ELSE IF is_object(j) THEN 1 + SizeMap(j.v, DOMAIN j.v)
    ELSE 1
SizeSeq(a, i) == IF i > Len(a) THEN 0 ELSE Size(a[i]) + SizeSeq(a, i + 1)
SizeMap(f, ks) ==
    IF ks = {} THEN 0
    ELSE LET k == CHOOSE x \in ks : TRUE IN Size(f[k]) + SizeMap(f, ks \ {k})

KeyA == Txt(<<"a">>)
KeyB == Txt(<<"b">>)
KeyDotted == Txt(<<"a", ".", "b">>)
KeyQuote == Txt(<<"q", "\"">>)
KeyEmpty == <<>>

\* A path as the caller means it: a sequence of key and index segments.
KeySeg(k) == [kind |-> "key", key |-> k, idx |-> 0]
IdxSeg(i) == [kind |-> "idx", key |-> <<>>, idx |-> i]

SegPaths ==
    { <<>>,
      <<KeySeg(KeyA)>>,
      <<KeySeg(KeyB)>>,
      <<KeySeg(KeyA), KeySeg(KeyB)>>,
      <<KeySeg(KeyA), IdxSeg(1)>>,
      <<KeySeg(KeyA), IdxSeg(2)>>,
      <<IdxSeg(0)>>,
      <<IdxSeg(1), KeySeg(KeyA)>>,
      <<KeySeg(KeyA), KeySeg(KeyB), IdxSeg(1)>> }

RECURSIVE PathText(_, _)
\* The path string of a segment sequence: a.b[1]
PathText(segs, i) ==
    IF i > Len(segs) THEN <<>>
    ELSE (IF segs[i].kind = "key"
          THEN (IF i > 1 THEN <<46>> ELSE <<>>) \o segs[i].key
          ELSE <<91>> \o IntText(segs[i].idx) \o <<93>>)
         \o PathText(segs, i + 1)

\* Path strings that are not well formed: an unterminated bracket, a bracket
\* without digits (alone and after a key), an invalid character after a key.
Malformed ==
    { Txt(<<"a", "[">>), Txt(<<"[", "]">>), Txt(<<"a", "[", "]">>), Txt(<<"a", "-", "b">>) }

PathInputs ==
    { [path |-> PathText(s, 1), segs |-> s, wf |-> TRUE] : s \in SegPaths }
        \cup { [path |-> t, segs |-> <<>>, wf |-> FALSE] : t \in Malformed }

\* The values the callers write through paths.
PathVals == { Null, Num(7, 0), Str(Txt(<<"x">>)) }

\* The keys and values the callers pass to the accessors, and the indexes
\* 0..MaxIndex.
AccessKeys == { KeyA, KeyB }
AccessVals == { Null, Num(1, 0), Str(Txt(<<"x">>)) }

\* The right operands of merge: {"b":3,"c":4} of the example, objects that
\* hold an object under the key a, an empty object, and two values that are
\* no objects.
MergeArgs ==
    { Obj(KeyB :> Num(3, 0) @@ Txt(<<"c">>) :> Num(4, 0)),
      Obj(KeyA :> Obj(KeyB :> Num(3, 0))),
      Obj(KeyA :> Obj(Txt(<<"c">>) :> Num(4, 0))),
      Obj(EmptyMap),
      Num(3, 0),
      Arr(<<>>) }

\* The keys and primitive values of the documents that are serialized and
\* flattened: keys with a dot, with a quote, and the empty key; numbers with an
\* exact binary representation, one of them (1.0078125) with more than six
\* significant digits; strings with a quote, a line feed and a byte above 127.
TextKeys == { KeyA, KeyB, KeyDotted, KeyQuote, KeyEmpty }
PlainVals == { Num(1, 0), Str(Txt(<<"x">>)) }
TextPrims ==
    { Null, Bool(TRUE), Bool(FALSE), Num(-25, -1), Num(10078125, -7),
      Str(<<34, 10>>), Str(<<233>>) } \cup PlainVals

\* The documents the callers construct: primitives, arrays of two, objects of
\* one key, objects of two keys with an object or an array below one of them.
TextDocs ==
    TextPrims
        \cup { Arr(<<x, y>>) : x \in TextPrims, y \in PlainVals }
        \cup { Obj(k :> x) : k \in TextKeys, x \in TextPrims }
        \cup { Obj(k[1] :> Num(1, 0) @@ k[2] :> Obj(k[3] :> y)) :
                 k \in { kk \in TextKeys \X TextKeys \X {KeyA, KeyB, KeyEmpty} : kk[1] # kk[2] },
                 y \in PlainVals }
        \cup { Obj(k[1] :> Num(1, 0) @@ k[2] :> Arr(<<Str(Txt(<<"x">>)), Obj(KeyA :> Null)>>)) :
                 k \in { kk \in TextKeys \X TextKeys : kk[1] # kk[2] } }

\* The precisions the callers pass to dump; 6 is the default.
Precisions == { 6, 3 }

RECURSIVE Strings(_, _)
\* The texts of at most n bytes over the alphabet A.
Strings(A, n) ==
    IF n = 0 THEN { <<>> }
    ELSE LET shorter == Strings(A, n - 1)
         IN  shorter \cup { Append(t, c) : t \in { u \in shorter : Len(u) = n - 1 }, c \in A }

RECURSIVE Concat(_)
\* The text made of the texts ts, one after the other.
Concat(ts) == IF ts = <<>> THEN <<>> ELSE Head(ts) \o Concat(Tail(ts))

\* The longest number literal among the texts that are enumerated.
MaxLiteral == 4

\* The characters of number literals - 0 1 . e + and the literals the callers
\* pass: every text of at most MaxLiteral of these characters, the examples
\* 01 1. .5 1e - -0 3.14 1e10, upper-case E, and literals whose exponent no
\* double has.
NumberChars == { 45, 48, 49, 46, 101, 43 }
NumberLiterals ==
    (Strings(NumberChars, MaxLiteral) \ { <<>> })
        \cup { Txt(<<".", "5">>), Txt(<<"3", ".", "1", "4">>), Txt(<<"1", "e", "1", "0">>),
               Txt(<<"1", "E", "5">>), Txt(<<"2", "0">>), Txt(<<"1", "0", "E", "-", "1">>),
               Txt(<<"1", "e", "9", "9", "9">>), Txt(<<"-", "1", "e", "9", "9", "9">>),
               Txt(<<"1", "e", "-", "9", "9", "9">>), Txt(<<"1", ".", "5", "e", "+", "9", "9", "9">>) }

\* A literal as the whole input, as the element of an array, as the value of
\* a key of an object.
InArray(t) == <<91>> \o t \o <<93>>
InObject(t) == Txt(<<"{", "\"", "a", "\"", ":">>) \o t \o <<125>>
NumberTexts ==
    NumberLiterals \cup { InArray(t) : t \in NumberLiterals }
        \cup { InObject(t) : t \in NumberLiterals }

RECURSIVE Hex4(_, _)
\* n as k upper-case hexadecimal digits.
Hex4(n, k) ==
    IF k = 0 THEN <<>>
    ELSE Append(Hex4(n \div 16, k - 1), IF (n % 16) < 10 THEN 48 + (n % 16) ELSE 55 + (n % 16))

\* The escape \uXXXX of the code unit n, and a string literal with the body b.
UEscape(n) == <<92, 117>> \o Hex4(n, 4)
Quoted(b) == <<34>> \o b \o <<34>>

\* Code units: high surrogates, low surrogates, and units that are neither.
HighUnits == { 55296, 55357, 56319 }
LowUnits == { 56320, 56832, 57343 }
PlainUnits == { 65, 55295, 57344 }

\* What follows a high surrogate where no low-surrogate escape does: nothing,
\* plain characters, another escape, an escape of a unit that is no low
\* surrogate, a low-surrogate escape cut short.
NonLowTails ==
    { <<>>, Txt(<<"a", "b", "c", "d", "e", "f">>), Txt(<<"\\", "n", "D", "C", "0", "0">>),
      Txt(<<"\\", "u", "D", "C", "0">>), Txt(<<"x">>) \o UEscape(56320) }
        \cup { UEscape(n) : n \in HighUnits \cup PlainUnits }

\* What precedes a low surrogate where no high surrogate does.
NonHighHeads == { <<>>, Txt(<<"a">>), Txt(<<"\\", "n">>) } \cup { UEscape(n) : n \in PlainUnits }

SurrogateTexts ==
    { Quoted(UEscape(h) \o UEscape(l)) : h \in HighUnits, l \in LowUnits }
        \cup { Quoted(UEscape(h) \o t) : h \in HighUnits, t \in NonLowTails }
        \cup { Quoted(t \o UEscape(l)) : t \in NonHighHeads, l \in LowUnits }
        \cup { Quoted(UEscape(n)) : n \in PlainUnits }

\* The tokens of arrays and objects: [ ] { } , a number and a key with its colon.
Tokens ==
    { <<91>>, <<93>>, <<123>>, <<125>>, <<44>>, <<49>>, Txt(<<"\"", "a", "\"", ":">>) }

\* The most tokens of an enumerated array or object text.
MaxTokens == 5

RECURSIVE TokenSeqs(_)
\* The sequences of at most n tokens that start with [ or {.
TokenSeqs(n) ==
    IF n = 1 THEN { <<(<<91>>)>>, <<(<<123>>)>> }
    ELSE LET shorter == TokenSeqs(n - 1)
         IN  shorter \cup { Append(ts, k) : ts \in { u \in shorter : Len(u) = n - 1 }, k \in Tokens }

ContainerTexts == { Concat(ts) : ts \in TokenSeqs(MaxTokens) }

\* Texts that are in error at a known byte: good is a prefix some JSON text
\* starts with, and no JSON text starts with good followed by the byte bad.
\* An unexpected character (at the start, in an array, after a comma), a bad
\* escape, a raw control character, a bad number, a bad literal, leftover
\* characters after the value.
ErrorCases ==
    { [good |-> <<>>, bad |-> 120, rest |-> <<>>],
      [good |-> Txt(<<"[", "1", " ">>), bad |-> 120, rest |-> <<93>>],
      [good |-> Txt(<<"[", "1", ",">>), bad |-> 93, rest |-> <<>>],
      [good |-> Txt(<<"{", "\"", "a", "\"">>), bad |-> 49, rest |-> <<125>>],
      [good |-> Txt(<<"\"", "a", "\\">>), bad |-> 113, rest |-> <<34>>],
      [good |-> Txt(<<"\"", "a">>), bad |-> 1, rest |-> <<34>>],
      [good |-> Txt(<<"[", "\"">>), bad |-> 10, rest |-> Txt(<<"\"", "]">>)],
      [good |-> Txt(<<"1", ".">>), bad |-> 120, rest |-> <<>>],
      [good |-> Txt(<<"-">>), bad |-> 120, rest |-> <<>>],
      [good |-> Txt(<<"[", "1", "e">>), bad |-> 93, rest |-> <<>>],
      [good |-> Txt(<<"n", "u", "l">>), bad |-> 120, rest |-> <<>>],
      [good |-> Txt(<<"t", "r">>), bad |-> 120, rest |-> <<101>>],
      [good |-> Txt(<<"0">>), bad |-> 49, rest |-> <<>>],
      [good |-> Txt(<<"1", " ">>), bad |-> 50, rest |-> <<>>],
      [good |-> Txt(<<"[", "]">>), bad |-> 93, rest |-> <<>>] }

ErrorTexts == { c.good \o <<c.bad>> \o c.rest : c \in ErrorCases }

\* Texts that end inside a string literal: as the whole value, after an
\* escaped quote, as an element, as the value of a key, as a key.
UnterminatedTexts ==
    { Txt(<<"\"", "a", "b", "c">>), <<34>>, Txt(<<"\"", "a", "\\", "\"">>), Txt(<<"[", "\"", "a", "b", "c">>), Txt(<<"{", "\"", "a", "\"", ":", "\"", "b">>), Txt(<<"{", "\"", "a">>), Txt(<<"{", "\"", "a", "\"", ":", "1", ",", "\"", "b">>) }

\* The characters after \u: hexadecimal digits, and characters that are
\* none; every run of four of them, and the runs 12zz, " 123", +123, -001, 0x1f
\* and 00e9.
EscapeChars == { 48, 49, 70, 122, 32, 43, 120 }
EscapeRuns ==
    { r \in Strings(EscapeChars, 4) : Len(r) = 4 }
        \cup { Txt(<<"1", "2", "z", "z">>), Txt(<<" ", "1", "2", "3">>), Txt(<<"+", "1", "2", "3">>), Txt(<<"-", "0", "0", "1">>), Txt(<<"0", "x", "1", "f">>), Txt(<<"0", "0", "e", "9">>), Txt(<<"2", "0", "A", "C">>) }
UnicodeTexts == { Quoted(<<92, 117>> \o r) : r \in EscapeRuns }

\* String literals with one raw byte, alone and between two letters.
RawByteTexts ==
    { Quoted(<<b>>) : b \in 0..255 } \cup { Quoted(<<97, b, 122>>) : b \in 0..255 }

\* The texts the callers pass to JSON::parse and JSON::is_valid.
ParseTexts ==
    NumberTexts \cup SurrogateTexts \cup ContainerTexts \cup ErrorTexts
        \cup UnterminatedTexts \cup UnicodeTexts \cup RawByteTexts

\* The String documents the callers serialize: every byte alone, and the
\* bytes of a UTF-8 text.
StringDocs == { Str(<<b>>) : b \in 0..255 } \cup { Str(<<99, 97, 102, 195, 169>>) }

\* The number of nodes of the tree under n.
RECURSIVE XmlSize(_), XmlSizeSeq(_)
XmlSize(n) == 1 + XmlSizeSeq(n.child_nodes)
XmlSizeSeq(cs) == IF cs = <<>> THEN 0 ELSE XmlSize(Head(cs)) + XmlSizeSeq(Tail(cs))

\* Tag names that differ in case and in length only, with a plain one.
NameA == Txt(<<"a">>)
NameB == Txt(<<"b">>)
XmlNames == { NameA, NameB, Txt(<<"A">>), Txt(<<"a", "b">>) }

OpenTag(x) == <<60>> \o x \o <<62>>
CloseTag(x) == <<60, 47>> \o x \o <<62>>
EmptyTag(x) == <<60>> \o x \o <<32, 47, 62>>

\* Documents whose closing tags carry any name: one element, an element in
\* an element, an element two levels down, an element after a sibling and
\* text, an element whose parent is not closed.
Nest1(x, y) == OpenTag(x) \o CloseTag(y)
Nest2(x, y, z, w) == OpenTag(x) \o OpenTag(y) \o CloseTag(z) \o CloseTag(w)
Nest3(y, z) ==
    OpenTag(NameA) \o OpenTag(NameB) \o OpenTag(y) \o CloseTag(z) \o CloseTag(NameB) \o CloseTag(NameA)
Sibling(y, z) ==
    OpenTag(NameA) \o EmptyTag(NameB) \o <<116>> \o OpenTag(y) \o <<117>> \o CloseTag(z)
        \o CloseTag(NameA)
Unclosed(x, y, z) == OpenTag(x) \o OpenTag(y) \o CloseTag(z)
ClosingTexts ==
    { Nest1(x, y) : x, y \in XmlNames }
        \cup { Unclosed(x, y, z) : x, y, z \in XmlNames }
        \cup { Nest2(x, y, z, w) : x, y, z, w \in XmlNames }
        \cup { Nest3(y, z) : y, z \in XmlNames }
        \cup { Sibling(y, z) : y, z \in XmlNames }

\* What a document has before its root: nothing, an XML declaration, a
\* comment, a declaration and a comment on lines of their own, a DOCTYPE.
XmlDeclaration == Txt(<<"<", "?", "x", "m", "l", " ", "v", "e", "r", "s", "i", "o", "n", "=", "\"", "1", ".", "0", "\"", "?", ">">>)
XmlComment == Txt(<<"<", "!", "-", "-", " ", "n", "o", "t", "e", " ", "-", "-", ">">>)
Prologs ==
    { <<>>, XmlDeclaration, XmlComment, XmlDeclaration \o <<10>> \o XmlComment \o <<10>>,
      Txt(<<"<", "!", "D", "O", "C", "T", "Y", "P", "E", " ", "r", "o", "o", "t", ">">>) \o <<10>> }

\* What the root has among its children: elements, and comments; text is
\* what the document has of it, nodes the child nodes it stands for.
ChildB == [text |-> EmptyTag(NameB), nodes |-> <<NewNode(NameB)>>]
ChildC ==
    [text |-> Txt(<<"<", "c", " ", "k", "=", "\"", "v", "\"", ">", "t", "<", "/", "c", ">">>),
     nodes |-> <<set_attribute(NewTextNode(Txt(<<"c">>), Txt(<<"t">>)), Txt(<<"k">>), Txt(<<"v">>))>>]
ChildComment == [text |-> XmlComment, nodes |-> <<>>]
ChildItems == { ChildB, ChildC, ChildComment }

\* The most children of the root of an enumerated document.
MaxChildren == 3

RECURSIVE ChildLists(_)
ChildLists(n) ==
    IF n = 0 THEN { <<>> }
    ELSE LET shorter == ChildLists(n - 1)
         IN  shorter \cup { Append(l, c) : l \in { u \in shorter : Len(u) = n - 1 }, c \in ChildItems }

RECURSIVE ChildText(_), ChildNodes(_)
ChildText(l) == IF l = <<>> THEN <<>> ELSE Head(l).text \o ChildText(Tail(l))
ChildNodes(l) == IF l = <<>> THEN <<>> ELSE Head(l).nodes \o ChildNodes(Tail(l))

\* The document of a prolog and of a root with the children l, and its tree.
RootName == Txt(<<"r", "o", "o", "t">>)
PrologDocument(pre, l) ==
    pre \o Txt(<<"<", "r", "o", "o", "t", " ", "i", "d", "=", "\"", "1", "\"", ">">>) \o ChildText(l) \o CloseTag(RootName)
PrologTree(l) ==
    [set_attribute(NewNode(RootName), Txt(<<"i", "d">>), Txt(<<"1">>)) EXCEPT !.child_nodes = ChildNodes(l)]
PrologTexts == { PrologDocument(pre, l) : pre \in Prologs, l \in ChildLists(MaxChildren) }

\* Tag names as documents write them: of the characters of names, empty,
\* with a character that is not of names.
WrittenNames ==
    { <<>>, NameA, Txt(<<"a", "-", "b">>), Txt(<<"x", ":", "y">>), Txt(<<"_", "1">>),
      Txt(<<"A", "9">>), Txt(<<"a", ".", "b">>), Txt(<<".">>) }
NameTexts ==
    UNION { { <<60>> \o n \o <<47, 62>>, EmptyTag(n), OpenTag(n) \o CloseTag(n),
              OpenTag(NameA) \o EmptyTag(n) \o CloseTag(NameA),
              OpenTag(NameA) \o OpenTag(n) \o <<116>> \o CloseTag(n) \o CloseTag(NameA),
              <<60>> \o n \o Txt(<<" ", "k", "=", "\"", "v", "\"">>) \o <<47, 62>> } : n \in WrittenNames }

\* Attribute names as documents write them, and the element <a NAME="1" />.
AttributeNames ==
    { Txt(<<"i", "d">>), Txt(<<"d", "a", "t", "a", "-", "i", "d">>), Txt(<<"x", "m", "l", ":", "l", "a", "n", "g">>), Txt(<<"_", "k", "1">>), Txt(<<"a", "-">>), Txt(<<"-", "a">>) }
AttributeDocument(k) == <<60>> \o NameA \o <<32>> \o k \o Txt(<<"=", "\"", "1", "\"">>) \o <<32, 47, 62>>
AttributeTexts == { AttributeDocument(k) : k \in AttributeNames }

\* Complete documents, and every text that ends before one of them does.
CompleteDocuments ==
    { Txt(<<"<", "a", ">", "<", "/", "a", ">">>), Txt(<<"<", "a", " ", "/", ">">>), Txt(<<"<", "a", " ", "k", "=", "\"", "v", "\"", ">", "<", "b", " ", "/", ">", "t", "<", "/", "a", ">">>), Txt(<<"<", "a", " ", "k", "=", "'", "v", "'", " ", "j", "=", "\"", "w", "\"", ">", "<", "b", ">", "t", "<", "/", "b", ">", "<", "/", "a", ">">>) }
ProperPrefixes(t) == { SubSeq(t, 1, n) : n \in 1..(Len(t) - 1) }
TruncatedTexts == UNION { ProperPrefixes(t) : t \in CompleteDocuments }

\* The texts the callers pass to Node::parse.
XmlTexts ==
    ClosingTexts \cup PrologTexts \cup NameTexts \cup AttributeTexts
        \cup CompleteDocuments \cup TruncatedTexts

\* Text and attribute values: every text of at most MaxEntityText of the
\* characters < > & " ' ; a and the space, and texts that read as entities.
EntityChars == { 60, 62, 38, 34, 39, 59, 97, 32 }
MaxEntityText == 2
EntityLike ==
    { Txt(<<"A", "&", "B">>), Txt(<<"x", "<", "y">>), Txt(<<"&", "l", "t", ";">>), Txt(<<"&", "a", "m", "p", ";", "l", "t", ";">>), Txt(<<"a", "&", "b", ";", "c">>), Txt(<<" ", "x", " ", " ", "y", " ">>), Txt(<<"&", "q", "u", "o", "t", ";", "'", "&", "a", "p", "o", "s", ";", "\"">>) }
EntityTexts == Strings(EntityChars, MaxEntityText) \cup EntityLike
EntityValues == Strings(EntityChars, 1) \cup EntityLike

ItemName == Txt(<<"i", "t", "e", "m">>)
KeyName == Txt(<<"k", "e", "y">>)
\* Node item(ItemName, t); item.set_attribute(KeyName, a)
EntityNodes == { set_attribute(NewTextNode(ItemName, t), KeyName, a) : t \in EntityTexts, a \in EntityValues }

\* The nodes the callers add as children, and the texts they set.
AddedNodes ==
    { NewNode(NameA), NewNode(NameB), NewTextNode(NameA, Txt(<<"t">>)),
      add_child(NewNode(NameB), NewNode(NameA)) }
SetTexts == { <<>>, Txt(<<"h", "i">>) }

\* ---------------------------------------------------------------- calls

\* The caller has constructed its document as one of the values D and holds
\* one of the texts T, on either kind of build, and has called nothing yet.
InitOf(D, T) ==
    /\ doc \in D
    /\ input \in T
    /\ char_signed \in BOOLEAN
    /\ last = [op |-> "init", pre |-> Null, arg |-> Null, ret |-> Null, err |-> FALSE]
    /\ clean = TRUE

InitWith(D) == InitOf(D, {<<>>})

\* JSON(): a default-constructed document.
Init == InitWith({Null})

\* The record of a call of member function o of doc with the arguments a, r
\* being what the call leaves behind.
Last(o, a, r) == [op |-> o, pre |-> doc, arg |-> a, ret |-> r.val, err |-> r.err]

\* doc.set_path(path, val)
SetPath ==
    \E p \in PathInputs, x \in PathVals :
        LET r == set_path(doc, p.path, x)
        IN  /\ Size(r.self) <= MaxNodes
            /\ doc' = r.self
            /\ last' = Last("set_path",
                            [path |-> p.path, segs |-> p.segs, wf |-> p.wf, val |-> x], r)
            /\ clean' = (clean /\ ~r.err)
            /\ UNCHANGED <<char_signed, input>>

\* doc.at_path(path), a const member function
AtPath ==
    \E p \in PathInputs :
        LET r == at_path(doc, p.path)
        IN  /\ last' = Last("at_path", [path |-> p.path, segs |-> p.segs, wf |-> p.wf], r)
            /\ clean' = (clean /\ ~r.err)
            /\ UNCHANGED <<doc, char_signed, input>>

\* doc.has_path(path), a const member function
HasPath ==
    \E p \in PathInputs :
        LET r == has_path(doc, p.path)
        IN  /\ last' = Last("has_path", [path |-> p.path, segs |-> p.segs, wf |-> p.wf], r)
            /\ clean' = (clean /\ ~r.err)
            /\ UNCHANGED <<doc, char_signed, input>>

NextPath == SetPath \/ AtPath \/ HasPath

\* The path calls on a document that starts Null.
SpecPath == Init /\ [][NextPath]_vars


\* doc[idx], the reference not written through
IndexAtCall ==
    \E i \in 0..MaxIndex :
        LET r == IndexAt(doc, i)
        IN  /\ Size(r.self) <= MaxNodes
            /\ doc' = r.self
            /\ last' = Last("index_at", [idx |-> i], r)
            /\ clean' = (clean /\ ~r.err)
            /\ UNCHANGED <<char_signed, input>>

\* self[idx] = val: operator[](size_t), then the assignment through the reference
SetAt(self, idx, val) ==
    LET c == IndexAt(self, idx)
    IN  IF c.err THEN c ELSE Done(Arr([c.self.v EXCEPT ![idx + 1] = val]), val)

\* doc[idx] = val
AssignAt ==
    \E i \in 0..MaxIndex, x \in AccessVals :
        LET r == SetAt(doc, i, x)
        IN  /\ Size(r.self) <= MaxNodes
            /\ doc' = r.self
            /\ last' = Last("assign_at", [idx |-> i, val |-> x], r)
            /\ clean' = (clean /\ ~r.err)
            /\ UNCHANGED <<char_signed, input>>

\* doc[key], the reference not written through
IndexKeyCall ==
    \E k \in AccessKeys :
        LET r == IndexKey(doc, k)
        IN  /\ Size(r.self) <= MaxNodes
            /\ doc' = r.self
            /\ last' = Last("index_key", [key |-> k], r)
            /\ clean' = (clean /\ ~r.err)
            /\ UNCHANGED <<char_signed, input>>

\* self[key] = val: operator[](key), then the assignment through the reference
SetKey(self, key, val) ==
    LET c == IndexKey(self, key)
    IN  IF c.err THEN c ELSE Done(Obj(MapPut(c.self.v, key, val)), val)

\* doc[key] = val
AssignKey ==
    \E k \in AccessKeys, x \in AccessVals :
        LET r == SetKey(doc, k, x)
        IN  /\ Size(r.self) <= MaxNodes
            /\ doc' = r.self
            /\ last' = Last("assign_key", [key |-> k, val |-> x], r)
            /\ clean' = (clean /\ ~r.err)
            /\ UNCHANGED <<char_signed, input>>

\* doc.push_back(item)
PushBack ==
    \E x \in AccessVals :
        LET r == push_back(doc, x)
        IN  /\ Size(r.self) <= MaxNodes
            /\ doc' = r.self
            /\ last' = Last("push_back", [val |-> x], r)
            /\ clean' = (clean /\ ~r.err)
            /\ UNCHANGED <<char_signed, input>>

\* doc.push_front(item)
PushFront ==
    \E x \in AccessVals :
        LET r == push_front(doc, x)
        IN  /\ Size(r.self) <= MaxNodes
            /\ doc' = r.self
            /\ last' = Last("push_front", [val |-> x], r)
            /\ clean' = (clean /\ ~r.err)
            /\ UNCHANGED <<char_signed, input>>

\* doc.merge(other)
Merge ==
    \E b \in MergeArgs :
        LET r == merge(doc, b)
        IN  /\ Size(r.self) <= MaxNodes
            /\ doc' = r.self
            /\ last' = Last("merge", [other |-> b], r)
            /\ clean' = (clean /\ ~r.err)
            /\ UNCHANGED <<char_signed, input>>

\* doc.pop_back()
PopBack ==
    LET r == pop_back(doc)
    IN  /\ doc' = r.self
        /\ last' = Last("pop_back", Null, r)
        /\ clean' = (clean /\ ~r.err)
        /\ UNCHANGED <<char_signed, input>>

\* doc.insert(index, item)
Insert ==
    \E i \in 0..MaxIndex, x \in AccessVals :
        LET r == insert(doc, i, x)
        IN  /\ Size(r.self) <= MaxNodes
            /\ doc' = r.self
            /\ last' = Last("insert", [idx |-> i, val |-> x], r)
            /\ clean' = (clean /\ ~r.err)
            /\ UNCHANGED <<char_signed, input>>

\* doc.erase(index)
Erase ==
    \E i \in 0..MaxIndex :
        LET r == erase(doc, i)
        IN  /\ doc' = r.self
            /\ last' = Last("erase", [idx |-> i], r)
            /\ clean' = (clean /\ ~r.err)
            /\ UNCHANGED <<char_signed, input>>

\* doc.erase(key)
EraseKey ==
    \E k \in AccessKeys :
        LET r == erase_key(doc, k)
        IN  /\ doc' = r.self
            /\ last' = Last("erase_key", [key |-> k], r)
            /\ clean' = (clean /\ ~r.err)
            /\ UNCHANGED <<char_signed, input>>

NextAccess ==
    IndexAtCall \/ AssignAt \/ IndexKeyCall \/ AssignKey \/ PushBack \/ PushFront \/ Merge

\* The mutable accessors and merge on a document constructed as a primitive.
SpecAccess == InitWith(AccessVals) /\ [][NextAccess]_vars

\* std::as_const(doc)[idx]
IndexAtConstCall ==
    \E i \in 0..MaxIndex :
        LET r == IndexAtConst(doc, i)
        IN  /\ doc' = r.self
            /\ last' = Last("const_index_at", [idx |-> i], r)
            /\ clean' = (clean /\ ~r.err)
            /\ UNCHANGED <<char_signed, input>>

\* std::as_const(doc)[key]
IndexKeyConstCall ==
    \E k \in AccessKeys :
        LET r == IndexKeyConst(doc, k)
        IN  /\ doc' = r.self
            /\ last' = Last("const_index_key", [key |-> k], r)
            /\ clean' = (clean /\ ~r.err)
            /\ UNCHANGED <<char_signed, input>>

\* doc.at(key, default_val)
AtCall ==
    \E k \in AccessKeys, x \in AccessVals :
        LET r == at_default(doc, k, x)
        IN  /\ doc' = r.self
            /\ last' = Last("at", [key |-> k, val |-> x], r)
            /\ clean' = (clean /\ ~r.err)
            /\ UNCHANGED <<char_signed, input>>

\* doc.contains(key)
ContainsCall ==
    \E k \in AccessKeys :
        /\ last' = [op |-> "contains", pre |-> doc, arg |-> [key |-> k],
                    ret |-> contains(doc, k), err |-> FALSE]
        /\ UNCHANGED <<doc, clean, char_signed, input>>

NextRead ==
    \/ IndexAtCall \/ AssignAt \/ IndexKeyCall \/ AssignKey
    \/ IndexAtConstCall \/ IndexKeyConstCall \/ AtCall \/ ContainsCall \/ AtPath

\* The accessors, mutable and const, on a document constructed as a primitive.
SpecRead == InitWith(AccessVals) /\ [][NextRead]_vars

NextMutate ==
    \/ IndexAtCall \/ IndexKeyCall \/ PushBack \/ PushFront
    \/ PopBack \/ Insert \/ Erase \/ EraseKey
    \/ Merge \/ SetPath

\* The document is constructed as a primitive.  No mutating member function
\* reads a char as a number, so the build where char is signed stands for both.
InitMutate == InitWith(AccessVals) /\ char_signed

\* Every mutating member function on a document constructed as a primitive.
SpecMutate == InitMutate /\ [][NextMutate]_vars

\* p = JSON::parse(text) has returned or thrown: the text p.dump(pretty, 0, 2,
\* precision) when it has returned.
Redump(text, p, pretty, precision) ==
    [err |-> p.err,
     val |-> [text |-> text,
              parsed |-> IF p.err THEN Null ELSE p.val,
              text2 |-> IF p.err THEN <<>> ELSE dump(p.val, pretty, 0, 2, precision)]]

Reparse(text, pretty, precision) == Redump(text, parse(text), pretty, precision)

\* t = doc.dump(pretty, 0, 2, precision); p = JSON::parse(t); t2 = p.dump(pretty, 0, 2, precision)
RoundTrip ==
    \E pretty \in BOOLEAN, precision \in Precisions :
        LET r == Reparse(dump(doc, pretty, 0, 2, precision), pretty, precision)
        IN  /\ last' = Last("roundtrip", [pretty |-> pretty, precision |-> precision], r)
            /\ clean' = (clean /\ ~r.err)
            /\ UNCHANGED <<doc, char_signed, input>>

\* doc.flattened()
Flattened ==
    LET r == Done(doc, flattened(doc, <<46>>))
    IN  /\ last' = Last("flattened", [separator |-> <<46>>], r)
        /\ clean' = (clean /\ ~r.err)
        /\ UNCHANGED <<doc, char_signed, input>>

NextText == RoundTrip \/ Flattened

\* Serialization, parsing and flattening of a constructed document.
SpecText == InitWith(TextDocs) /\ [][NextText]_vars

\* What JSON::parse leaves to its caller: the value, or the JSONParseError
\* with the position idx in its message.
ParseReturn(r) == [err |-> r.err, val |-> [idx |-> r.idx, val |-> r.val]]

\* doc = JSON::parse(input)
ParseCall ==
    LET r == ParseReturn(parse(input))
    IN  /\ doc' = IF r.err THEN doc ELSE r.val.val
        /\ last' = Last("parse", [text |-> input], r)
        /\ clean' = (clean /\ ~r.err)
        /\ UNCHANGED <<char_signed, input>>

\* JSON::is_valid(input)
IsValidCall ==
    LET r == Done(doc, is_valid(input))
    IN  /\ last' = Last("is_valid", [text |-> input], r)
        /\ clean' = (clean /\ ~r.err)
        /\ UNCHANGED <<doc, char_signed, input>>

NextParse == ParseCall \/ IsValidCall

\* JSON::parse and JSON::is_valid on a text.
SpecParse == InitOf({Null}, ParseTexts) /\ [][NextParse]_vars

\* doc = Node::parse(input)
XmlParse ==
    LET r == ParseReturn(xml_parse(input))
    IN  /\ doc' = IF r.err THEN doc ELSE r.val.val
        /\ last' = Last("xml_parse", [text |-> input], r)
        /\ clean' = (clean /\ ~r.err)
        /\ UNCHANGED <<char_signed, input>>

\* Node::parse on a text, from a default-constructed Node.
SpecXmlParse == InitOf({NewNode(<<>>)}, XmlTexts) /\ [][XmlParse]_vars

\* What Node::parse makes of the text Node::dump has written.
XmlReparse(text, r) == [err |-> r.err, val |-> [text |-> text, node |-> r.val]]
XmlRedump(text) == XmlReparse(text, xml_parse(text))

\* Node::parse(doc.dump(pretty))
XmlRoundTrip ==
    \E pretty \in BOOLEAN :
        /\ last' = Last("xml_roundtrip", [pretty |-> pretty], XmlRedump(xml_dump(doc, pretty)))
        /\ clean' = (clean /\ ~XmlRedump(xml_dump(doc, pretty)).err)
        /\ UNCHANGED <<doc, char_signed, input>>

\* Node::parse of Node::dump on a node with a text and an attribute.
SpecXmlEntity == InitOf(EntityNodes, {<<>>}) /\ [][XmlRoundTrip]_vars

\* doc.add_child(child)
AddChild ==
    \E child \in AddedNodes :
        /\ XmlSize(doc) + XmlSize(child) <= MaxNodes
        /\ doc' = add_child(doc, child)
        /\ last' = Last("add_child", [child |-> child], Done(doc, child))
        /\ UNCHANGED <<char_signed, clean, input>>

\* doc[child_name], the mutable operator[]
IndexChildCall ==
    \E child_name \in { NameA, NameB } :
        LET r == IndexChild(doc, child_name)
        IN  /\ XmlSize(r.self) <= MaxNodes
            /\ doc' = r.self
            /\ last' = Last("index_child", [child_name |-> child_name], r)
            /\ UNCHANGED <<char_signed, clean, input>>

\* doc.set_text(text)
SetText ==
    \E text \in SetTexts :
        /\ doc' = set_text(doc, text)
        /\ last' = Last("set_text", [text |-> text], Done(doc, text))
        /\ UNCHANGED <<char_signed, clean, input>>

NextXmlTree == AddChild \/ IndexChildCall \/ SetText \/ XmlRoundTrip

\* A tree built from Node("root") by appends, written and parsed again.
SpecXmlTree == InitOf({NewNode(RootName)}, {<<>>}) /\ [][NextXmlTree]_vars

\* A String written by dump and parsed again.
SpecString == InitWith(StringDocs) /\ [][RoundTrip]_vars

\* Every call on a document that starts as Null.
Next ==
    \/ SetPath \/ AtPath \/ HasPath
    \/ IndexAtCall \/ AssignAt \/ IndexKeyCall \/ AssignKey \/ PushBack \/ PushFront
    \/ IndexAtConstCall \/ IndexKeyConstCall \/ AtCall \/ ContainsCall
    \/ PopBack \/ Insert \/ Erase \/ EraseKey
    \/ Merge
    \/ RoundTrip \/ Flattened
    \/ ParseCall \/ IsValidCall

Spec == Init /\ [][Next]_vars

\* ---------------------------------------------------------------- path claims

RECURSIVE Resolves(_, _), Lookup(_, _)
\* Every segment of segs resolves in d: each key is present in an Object, each
\* index is within an Array.
Resolves(d, segs) ==
    IF segs = <<>> THEN TRUE
    ELSE LET g == Head(segs)
         IN  IF g.kind = "key"
             THEN is_object(d) /\ g.key \in DOMAIN d.v /\ Resolves(d.v[g.key], Tail(segs))
             ELSE is_array(d) /\ g.idx < Len(d.v) /\ Resolves(d.v[g.idx + 1], Tail(segs))

\* The value segs addresses in d, Null where a segment does not resolve.
Lookup(d, segs) ==
    IF segs = <<>> THEN d
    ELSE LET g == Head(segs)
         IN  IF g.kind = "key"
             THEN IF is_object(d) /\ g.key \in DOMAIN d.v
                  THEN Lookup(d.v[g.key], Tail(segs)) ELSE Null
             ELSE IF is_array(d) /\ g.idx < Len(d.v)
                  THEN Lookup(d.v[g.idx + 1], Tail(segs)) ELSE Null

Prefix(segs, n) == SubSeq(segs, 1, n)

\* Segment n of segs is applied, in d, to an existing value that is neither
\* Null nor of the kind the segment needs.
WrongKindAt(d, segs, n) ==
    LET v == Lookup(d, Prefix(segs, n - 1))
    IN  /\ Resolves(d, Prefix(segs, n - 1))
        /\ ~is_null(v)
        /\ IF segs[n].kind = "key" THEN ~is_object(v) ELSE ~is_array(v)

\* C3: starting from a Null document, after a sequence of set_path calls none
\* of which raised, the path p written last addresses the value written:
\* at_path(p) returns it, every key segment's parent is an Object, every index
\* segment's parent is an Array of length at least index + 1, and the array
\* slots the call created beside the addressed one hold Null.
C3_SetPathThenAtPath ==
    (clean /\ last.op = "set_path" /\ last.arg.wf) =>
        LET segs == last.arg.segs
            r == at_path(doc, last.arg.path)
        IN  /\ ~r.err
            /\ r.val = last.arg.val
            /\ \A n \in 1..Len(segs) :
                LET parent == Lookup(doc, Prefix(segs, n - 1))
                    before == Lookup(last.pre, Prefix(segs, n - 1))
                IN  IF segs[n].kind = "key"
                    THEN is_object(parent)
                    ELSE /\ is_array(parent)
                         /\ Len(parent.v) >= segs[n].idx + 1
                         /\ \A i \in 1..Len(parent.v) :
                                (i # segs[n].idx + 1 /\ (~is_array(before) \/ i > Len(before.v)))
                                    => parent.v[i] = Null

\* C4: for a well-formed path at_path does not raise, leaves the document as
\* it was, and returns the addressed value when every segment resolves and
\* Null otherwise.
C4_AtPathBestEffort ==
    (last.op = "at_path" /\ last.arg.wf) =>
        /\ ~last.err
        /\ doc = last.pre
        /\ last.ret = Lookup(last.pre, last.arg.segs)

\* at_path has followed two segments or more to a value that is not Null.
C4_Witness ==
    /\ last.op = "at_path" /\ last.arg.wf
    /\ Len(last.arg.segs) >= 2
    /\ Resolves(last.pre, last.arg.segs)
    /\ ~is_null(last.ret)

\* C5: a malformed path makes at_path and set_path raise, whatever the document.
C5_MalformedPathRaises ==
    (last.op \in {"at_path", "set_path"} /\ ~last.arg.wf) => last.err

\* C6: when set_path applies a segment to an existing value that is neither
\* Null nor of the segment's kind, it raises, and that value is still there.
C6_SetPathNoConversion ==
    (last.op = "set_path" /\ last.arg.wf) =>
        \A n \in 1..Len(last.arg.segs) :
            WrongKindAt(last.pre, last.arg.segs, n) =>
                /\ last.err
                /\ Resolves(doc, Prefix(last.arg.segs, n - 1))
                /\ Lookup(doc, Prefix(last.arg.segs, n - 1))
                       = Lookup(last.pre, Prefix(last.arg.segs, n - 1))

\* set_path has met a String or a Number below the root where it needed a container.
C6_Witness ==
    /\ last.op = "set_path" /\ last.arg.wf
    /\ \E n \in 2..Len(last.arg.segs) : WrongKindAt(last.pre, last.arg.segs, n)
    /\ last.err

\* ---------------------------------------------------------------- text claims

\* C1: for a document v, parse(v.dump(false)) succeeds and equals v.
C1_RoundTrip ==
    (last.op = "roundtrip" /\ ~last.arg.pretty /\ last.arg.precision = 6) =>
        /\ ~last.err
        /\ last.ret.parsed = last.pre

\* C2: for every mode and precision, dump(parse(dump(v))) is the text dump(v).
C2_IdempotentDump ==
    (last.op = "roundtrip") =>
        /\ ~last.err
        /\ last.ret.text2 = last.ret.text

RECURSIVE StringEnd(_, _), NextNonSpace(_, _), ScanKeys(_, _, _, _)
\* The position of the quote that closes the string literal whose content
\* starts at position i of the text t.
StringEnd(t, i) ==
    IF i > Len(t) THEN Len(t) + 1
    ELSE IF t[i] = 92 THEN StringEnd(t, i + 2)
    ELSE IF t[i] = 34 THEN i
    ELSE StringEnd(t, i + 1)

NextNonSpace(t, i) ==
    IF i <= Len(t) /\ t[i] \in {32, 10} THEN NextNonSpace(t, i + 1) ELSE i

\* The string literals of t that are followed by a colon and lie directly inside
\* the outermost brackets, in the order they appear.
ScanKeys(t, i, depth, keys) ==
    IF i > Len(t) THEN keys
    ELSE IF t[i] = 34
    THEN LET j == StringEnd(t, i + 1)
             n == NextNonSpace(t, j + 1)
             isKey == depth = 1 /\ n <= Len(t) /\ t[n] = 58
         IN  ScanKeys(t, j + 1, depth,
                      IF isKey THEN Append(keys, SubSeq(t, i + 1, j - 1)) ELSE keys)
    ELSE IF t[i] \in {123, 91} THEN ScanKeys(t, i + 1, depth + 1, keys)
    ELSE IF t[i] \in {125, 93} THEN ScanKeys(t, i + 1, depth - 1, keys)
    ELSE ScanKeys(t, i + 1, depth, keys)

EmittedKeys(t) == ScanKeys(t, 1, 0, <<>>)

RECURSIVE Subvalues(_)
\* The values of the tree j, j included.
Subvalues(j) ==
    IF is_array(j) THEN {j} \cup UNION { Subvalues(j.v[i]) : i \in 1..Len(j.v) }
    ELSE IF is_object(j) THEN {j} \cup UNION { Subvalues(j.v[k]) : k \in DOMAIN j.v }
    ELSE {j}

\* C8: in compact and in pretty mode, dump writes the keys of every Object of
\* the document once each and in ascending order, whatever calls have inserted
\* them; and inserting two keys in one order or the other gives documents that
\* are equal and dump to the same text.
C8_KeysSortedInDump ==
    /\ \A o \in Subvalues(doc) : is_object(o) =>
        \A pretty \in BOOLEAN :
            LET ks == EmittedKeys(dump(o, pretty, 0, 2, 6))
            IN  /\ Len(ks) = Cardinality(DOMAIN o.v)
                /\ { ks[i] : i \in 1..Len(ks) } = DOMAIN o.v
                /\ \A i \in 1..(Len(ks) - 1) : KeyLess(ks[i], ks[i + 1])
    /\ (is_object(doc) \/ is_null(doc)) =>
        \A k1 \in AccessKeys, k2 \in AccessKeys, x \in AccessVals, y \in AccessVals :
            k1 # k2 =>
                LET one == SetKey(SetKey(doc, k1, x).self, k2, y).self
                    other == SetKey(SetKey(doc, k2, y).self, k1, x).self
                IN  /\ one = other
                    /\ dump(one, FALSE, 0, 2, 6) = dump(other, FALSE, 0, 2, 6)

\* A key has been inserted, by operator[] or by merge, into an Object that
\* held a larger key already.
C8_Witness ==
    /\ last.op \in {"assign_key", "merge"} /\ ~last.err
    /\ is_object(last.pre) /\ is_object(doc)
    /\ \E k \in (DOMAIN doc.v) \ (DOMAIN last.pre.v) :
           \E old \in DOMAIN last.pre.v : KeyLess(k, old)

RECURSIVE LeafSteps(_)
\* The primitive leaves of the document j, each as the sequence of key and
\* index steps that leads to it.
LeafSteps(j) ==
    IF is_object(j)
    THEN UNION { { <<KeySeg(k)>> \o p : p \in LeafSteps(j.v[k]) } : k \in DOMAIN j.v }
    ELSE IF is_array(j)
    THEN UNION { { <<IdxSeg(i - 1)>> \o p : p \in LeafSteps(j.v[i]) } : i \in 1..Len(j.v) }
    ELSE { <<>> }

\* C10: flattened() returns an Object without an Array or Object among its
\* values, with one entry per primitive leaf of the document, under the leaf's
\* path and holding the leaf, and leaves the document as it was.
C10_FlattenedLeaves ==
    (last.op = "flattened") =>
        /\ is_object(last.ret)
        /\ \A k \in DOMAIN last.ret.v : is_primitive(last.ret.v[k])
        /\ \A p \in LeafSteps(last.pre) :
               /\ PathText(p, 1) \in DOMAIN last.ret.v
               /\ last.ret.v[PathText(p, 1)] = Lookup(last.pre, p)
        /\ Cardinality(DOMAIN last.ret.v) = Cardinality(LeafSteps(last.pre))
        /\ doc = last.pre

\* ---------------------------------------------------------------- accessor claims

RECURSIVE OneVariant(_)
\* j holds exactly one of the six variants, with a payload of that variant,
\* and so does every value below it.
OneVariant(j) ==
    /\ Cardinality({ n \in 1..6 :
           <<is_null(j), is_bool(j), is_number(j), is_string(j), is_array(j), is_object(j)>>[n] }) = 1
    /\ is_bool(j) => j.v \in BOOLEAN
    /\ is_number(j) => j.v = Normal(j.v.m, j.v.e)
    /\ is_string(j) => \A i \in 1..Len(j.v) : j.v[i] \in 0..255
    /\ is_array(j) => \A i \in 1..Len(j.v) : OneVariant(j.v[i])
    /\ is_object(j) => \A k \in DOMAIN j.v : OneVariant(j.v[k])

ArrayCalls == { "index_at", "assign_at", "push_back", "push_front" }
KeyCalls == { "index_key", "assign_key" }

\* What the call that was made last leaves of an empty Array or Object.
ActedOnEmpty ==
    IF last.op = "index_at" THEN Arr([n \in 1..(last.arg.idx + 1) |-> Null])
    ELSE IF last.op = "assign_at"
    THEN Arr([n \in 1..(last.arg.idx + 1) |-> IF n = last.arg.idx + 1 THEN last.arg.val ELSE Null])
    ELSE IF last.op \in {"push_back", "push_front"} THEN Arr(<<last.arg.val>>)
    ELSE IF last.op = "index_key" THEN Obj(last.arg.key :> Null)
    ELSE Obj(last.arg.key :> last.arg.val)

\* C7: operator[](size_t), operator[](key), push_back and push_front act on a
\* Null value as on an empty Array (index, push) or an empty Object (key); on a
\* value that is not Null and not of the matching variant they raise and leave
\* the value as it was; every value holds exactly one of the six variants.
C7_CoerceIfNull ==
    /\ OneVariant(doc)
    /\ (last.op \in ArrayCalls \cup KeyCalls) =>
        LET matches == IF last.op \in ArrayCalls THEN is_array(last.pre) ELSE is_object(last.pre)
        IN  IF is_null(last.pre) THEN ~last.err /\ doc = ActedOnEmpty
            ELSE IF ~matches THEN last.err /\ doc = last.pre
            ELSE ~last.err /\ (IF last.op \in ArrayCalls THEN is_array(doc) ELSE is_object(doc))

\* A keyed accessor has been called on an Array, a String or a Number, or an
\* indexed accessor or a push on an Object, a String or a Number.
C7_Witness ==
    /\ last.op \in ArrayCalls \cup KeyCalls
    /\ ~is_null(last.pre)
    /\ IF last.op \in ArrayCalls THEN ~is_array(last.pre) ELSE ~is_object(last.pre)
    /\ last.err

\* C9: a.merge(b) on two Objects leaves in a the keys of both, b's value under
\* every key of b, with no merging of the values below, and a's old value under
\* every other key; when a or b is no Object it raises and a is as it was. b is
\* passed by reference to const.
C9_MergeShallowRightBiased ==
    (last.op = "merge") =>
        LET a == last.pre
            b == last.arg.other
        IN  IF is_object(a) /\ is_object(b)
            THEN /\ ~last.err
                 /\ is_object(doc)
                 /\ DOMAIN doc.v = (DOMAIN a.v) \cup (DOMAIN b.v)
                 /\ \A k \in DOMAIN b.v : doc.v[k] = b.v[k]
                 /\ \A k \in (DOMAIN a.v) \ (DOMAIN b.v) : doc.v[k] = a.v[k]
            ELSE last.err /\ doc = last.pre

\* merge has been called with two Objects that hold different Objects under a
\* common key, the left one with a key of its own.
C9_Witness ==
    /\ last.op = "merge" /\ ~last.err
    /\ is_object(last.pre) /\ is_object(last.arg.other)
    /\ \E k \in (DOMAIN last.pre.v) \cap (DOMAIN last.arg.other.v) :
           /\ is_object(last.pre.v[k]) /\ is_object(last.arg.other.v[k])
           /\ last.pre.v[k] # last.arg.other.v[k]
    /\ (DOMAIN last.pre.v) \ (DOMAIN last.arg.other.v) # {}

\* ------------------------------------------------------------ parse claims

\* The number literal of a text of NumberTexts: the text itself, the element
\* of its array, the value of its key.
LiteralOf(t) ==
    IF t[1] = 91 THEN SubSeq(t, 2, Len(t) - 1)
    ELSE IF t[1] = 123 THEN SubSeq(t, 6, Len(t) - 1)
    ELSE t

AllDigits(t) == \A i \in 1..Len(t) : t[i] \in 48..57

IsIntegerPart(t) == t # <<>> /\ AllDigits(t) /\ (t[1] = 48 => Len(t) = 1)

IsFraction(t) == t = <<>> \/ (Len(t) >= 2 /\ t[1] = 46 /\ AllDigits(Tail(t)))

ExponentDigits(t) == IF Len(t) >= 2 /\ t[2] \in {43, 45} THEN SubSeq(t, 3, Len(t)) ELSE Tail(t)

IsExponent(t) ==
    t = <<>> \/ (Len(t) >= 2 /\ t[1] \in {101, 69}
                    /\ ExponentDigits(t) # <<>> /\ AllDigits(ExponentDigits(t)))

\* The grammar of a JSON number: an optional minus, an integer part without
\* leading zero, an optional fraction, an optional exponent.
NumberSplits(t) ==
    { sp \in [a : 0..1, b : 0..Len(t), c : 0..Len(t)] :
        /\ sp.a <= sp.b /\ sp.b <= sp.c
        /\ (sp.a = 1 => (t # <<>> /\ t[1] = 45))
        /\ IsIntegerPart(SubSeq(t, sp.a + 1, sp.b))
        /\ IsFraction(SubSeq(t, sp.b + 1, sp.c))
        /\ IsExponent(SubSeq(t, sp.c + 1, Len(t))) }

MatchesNumber(t) == NumberSplits(t) # {}

RECURSIVE Decimal(_)
Decimal(ds) == IF ds = <<>> THEN 0 ELSE 10 * Decimal(SubSeq(ds, 1, Len(ds) - 1)) + (ds[Len(ds)] - 48)

\* The decimal exponent a literal split as sp is written with.
WrittenExponent(t, sp) ==
    LET x == SubSeq(t, sp.c + 1, Len(t))
    IN  IF x = <<>> THEN 0
        ELSE IF x[2] = 45 THEN -Decimal(ExponentDigits(x)) ELSE Decimal(ExponentDigits(x))

\* A literal of the grammar has a double: it is zero, or its decimal order of
\* magnitude lies within that of the finite, normal doubles.
HasDouble(t) ==
    \A sp \in NumberSplits(t) :
        LET digits == SubSeq(t, sp.a + 1, sp.b) \o SubSeq(t, sp.b + 2, sp.c)
            nonzero == { i \in 1..Len(digits) : digits[i] # 48 }
            first == CHOOSE i \in nonzero : \A j \in nonzero : i <= j
            order == WrittenExponent(t, sp) + (sp.b - sp.a) - first
        IN  nonzero = {} \/ (order <= 308 /\ order >= -308)

ParsedNumber == last.op = "parse" /\ last.arg.text \in NumberTexts

\* C11 (amended): JSON::parse accepts a number, at the top level and as the
\* element of an array or the value of an object key, exactly when it matches
\* the number grammar and its value is within the range of a double; 01, 1.,
\* .5, 1e and - are errors, -0, 3.14 and 1e10 parse to their values.
C11_NumberGrammarInRange ==
    ParsedNumber =>
        LET lit == LiteralOf(last.arg.text)
        IN  /\ last.err = ~(MatchesNumber(lit) /\ HasDouble(lit))
            /\ lit \in { Txt(<<"0", "1">>), Txt(<<"1", ".">>), Txt(<<".", "5">>),
                         Txt(<<"1", "e">>), Txt(<<"-">>) } => last.err
            /\ last.arg.text = Txt(<<"-", "0">>) => last.ret.val = Num(0, 0)
            /\ last.arg.text = Txt(<<"3", ".", "1", "4">>) => last.ret.val = Num(314, -2)
            /\ last.arg.text = Txt(<<"1", "e", "1", "0">>) => last.ret.val = Num(1, 10)
            /\ last.arg.text = InArray(Txt(<<"1", "e", "1", "0">>))
                   => last.ret.val = Arr(<<Num(1, 10)>>)

\* A number of the grammar has been parsed as the value of an object key, or
\* a number of the grammar beyond every double has been refused in an array.
C11_Witness ==
    /\ ParsedNumber
    /\ \/ last.arg.text = InObject(Txt(<<"-", "1", ".", "1">>)) /\ ~last.err
          /\ last.ret.val = Obj(MapPut(EmptyMap, KeyA, Num(-11, -1)))
       \/ last.arg.text = InArray(Txt(<<"1", "e", "9", "9", "9">>)) /\ last.err

\* C11 as stated: a number is accepted exactly when it matches the grammar.
C11_NumberGrammar ==
    ParsedNumber => (last.err = ~MatchesNumber(LiteralOf(last.arg.text)))

\* The four bytes of UTF-8 of a code point beyond U+FFFF.
Utf8Four(cp) ==
    <<240 + (cp \div 262144), 128 + ((cp \div 4096) % 64), 128 + ((cp \div 64) % 64), 128 + (cp % 64)>>

\* The code point of the surrogate pair hi, lo: (hi - D800) << 10 | (lo - DC00),
\* the two fields being disjoint, above 0x10000.
PairCodePoint(hi, lo) == 65536 + (hi - 55296) * 1024 + (lo - 56320)

ParsedText(t) == last.op = "parse" /\ last.arg.text = t

\* C12: a \u escape of a high surrogate immediately followed by a \u escape
\* of a low surrogate decodes to the one code point of the pair, stored as
\* its four bytes of UTF-8; a high surrogate followed by anything else, and a
\* low surrogate without a high surrogate before it, are parse errors.
C12_SurrogatePairs ==
    /\ \A h \in HighUnits, l \in LowUnits :
           ParsedText(Quoted(UEscape(h) \o UEscape(l)))
               => ~last.err /\ last.ret.val = Str(Utf8Four(PairCodePoint(h, l)))
    /\ ParsedText(Quoted(UEscape(55357) \o UEscape(56832)))
           => last.ret.val = Str(<<240, 159, 152, 128>>)
    /\ \A h \in HighUnits, t \in NonLowTails :
           ParsedText(Quoted(UEscape(h) \o t)) => last.err
    /\ \A t \in NonHighHeads, l \in LowUnits :
           ParsedText(Quoted(t \o UEscape(l))) => last.err
    /\ \A h \in HighUnits, l \in LowUnits :
           last.op = "is_valid" /\ last.arg.text = Quoted(UEscape(h) \o UEscape(l)) => last.ret

\* The pair D83D DE00 has been parsed into the four bytes of U+1F600.
C12_Witness ==
    /\ ParsedText(Quoted(UEscape(55357) \o UEscape(56832)))
    /\ ~last.err
    /\ last.ret.val = Str(<<240, 159, 152, 128>>)
    /\ doc = last.ret.val

RECURSIVE Values(_), Elements(_), Pairs(_)
\* The well-formed values of at most n tokens: a number of one digit or more,
\* an array of comma-separated values, an object of comma-separated pairs of key and value.
Values(n) ==
    IF n <= 0 THEN {}
    ELSE { [i \in 1..k |-> <<49>>] : k \in 1..n }
            \cup (IF n >= 2 THEN { << <<91>>, <<93>> >>, << <<123>>, <<125>> >> } ELSE {})
            \cup { << <<91>> >> \o e \o << <<93>> >> : e \in Elements(n - 2) }
            \cup { << <<123>> >> \o e \o << <<125>> >> : e \in Pairs(n - 2) }

Elements(n) ==
    IF n <= 0 THEN {}
    ELSE
    Values(n) \cup { x \in { v \o << <<44>> >> \o e : v \in Values(n - 2), e \in Elements(n - 2) } :
                        Len(x) <= n }

Pairs(n) ==
    IF n <= 0 THEN {}
    ELSE
    LET pair == { << Txt(<<"\"", "a", "\"", ":">>) >> \o v : v \in Values(n - 1) }
    IN  pair \cup { x \in { q \o << <<44>> >> \o e : q \in pair, e \in Pairs(n - 3) } : Len(x) <= n }

\* The texts of the well-formed arrays and objects among ContainerTexts.
WellFormedTexts == { Concat(ts) : ts \in { v \in Values(MaxTokens) : Len(v) >= 2 } }

\* A comma with the closing bracket or brace right after it.
TrailingComma(t) == \E i \in 1..(Len(t) - 1) : t[i] = 44 /\ t[i + 1] \in {93, 125}

\* C13: JSON::parse accepts [] and {} and the well-formed arrays and objects,
\* and rejects every text where a comma is not followed by another element or
\* pair; JSON::is_valid is true of the former and false of the latter.
C13_TrailingCommaRejected ==
    /\ (last.op = "parse" /\ last.arg.text \in ContainerTexts)
           => /\ last.err = (last.arg.text \notin WellFormedTexts)
              /\ TrailingComma(last.arg.text) => last.err
    /\ (last.op = "is_valid" /\ last.arg.text \in ContainerTexts)
           => /\ last.ret = (last.arg.text \in WellFormedTexts)
              /\ TrailingComma(last.arg.text) => ~last.ret
    /\ ParsedText(<<91, 93>>) => ~last.err /\ last.ret.val = Arr(<<>>)
    /\ ParsedText(<<123, 125>>) => ~last.err /\ last.ret.val = Obj(EmptyMap)

\* [1,] has been refused by parse and found invalid by is_valid after it.
C13_Witness ==
    /\ last.op = "is_valid"
    /\ last.arg.text = Txt(<<"[", "1", ",", "]">>)
    /\ ~last.ret
    /\ ~clean

\* C14: whenever JSON::parse fails, the position of the error is the offset
\* of the first offending byte, the byte after which no JSON text can be made
\* of the input, for every kind of error: an unexpected character, a bad
\* escape, a raw control character, a bad number, leftover characters.
C14_ErrorPosition ==
    \A c \in ErrorCases :
        ParsedText(c.good \o <<c.bad>> \o c.rest) => last.err /\ last.ret.idx = Len(c.good)

\* ------------------------------------------------------------- xml claims

\* The document <item key="A&amp;B">x&lt;y</item> and its node.
EntityDocument == Txt(<<"<", "i", "t", "e", "m", " ", "k", "e", "y", "=", "\"", "A", "&", "a", "m", "p", ";", "B", "\"", ">", "x", "&", "l", "t", ";", "y", "<", "/", "i", "t", "e", "m", ">">>)
EntityNode == set_attribute(NewTextNode(ItemName, Txt(<<"x", "<", "y">>)), KeyName, Txt(<<"A", "&", "B">>))

\* C15: a node with the text t and the attribute value a, dumped and parsed
\* again, has the text t and the attribute value a exactly, for every t and
\* a; the node of <item key="A&amp;B">x&lt;y</item> has key = A&B and the
\* text x<y, and is written in that same entity form.
C15_EntityRoundTrip ==
    last.op = "xml_roundtrip" =>
        /\ ~last.err
        /\ last.ret.node.text_content = doc.text_content
        /\ last.ret.node.attributes = doc.attributes
        /\ last.ret.node = doc
        /\ (doc = EntityNode /\ ~last.arg.pretty) => last.ret.text = EntityDocument
        /\ (doc = EntityNode /\ last.arg.pretty) => last.ret.text = EntityDocument \o <<10>>
        /\ last.ret.text = EntityDocument => last.ret.node = EntityNode

\* The node with key = A&B and text x<y has been written as the document
\* <item key="A&amp;B">x&lt;y</item> and read back from it.
C15_Witness ==
    /\ last.op = "xml_roundtrip"
    /\ doc = EntityNode
    /\ last.ret.text = EntityDocument
    /\ last.ret.node = EntityNode

ParsedXml(t) == last.op = "xml_parse" /\ last.arg.text = t

\* C16: Node::parse raises whenever the name of a closing tag differs, case
\* included, from the name of the element it closes, at any depth, as in
\* <a><b></a>; it returns the tree when every closing tag matches, and no
\* tree when it raises.
C16_MismatchedClosingTag ==
    /\ \A x, y \in XmlNames :
           ParsedXml(Nest1(x, y))
               => /\ last.err = (x # y)
                  /\ ~last.err => last.ret.val = NewNode(x)
    /\ \A x, y, z, w \in XmlNames :
           ParsedXml(Nest2(x, y, z, w))
               => /\ last.err = ~(y = z /\ x = w)
                  /\ ~last.err => last.ret.val = add_child(NewNode(x), NewNode(y))
    /\ \A y, z \in XmlNames :
           /\ ParsedXml(Nest3(y, z)) => last.err = (y # z)
           /\ ParsedXml(Sibling(y, z)) => last.err = (y # z)
    /\ \A x, y, z \in XmlNames : ParsedXml(Unclosed(x, y, z)) => last.err
    /\ (last.op = "xml_parse" /\ last.arg.text \in ClosingTexts /\ last.err)
           => doc = last.pre /\ last.ret.val = Null

\* <a><b></a> has been refused, and the caller is left with the node it had.
C16_Witness ==
    /\ ParsedXml(Unclosed(NameA, NameB, NameA))
    /\ last.err
    /\ doc = NewNode(<<>>)

\* C17: Node::parse accepts a document with an XML declaration and a comment
\* before the root and with comments among the children of the root; they
\* are skipped, none becomes a child node, none is an error: the root, its
\* attributes and its element children are returned.
C17_PrologAndComments ==
    \A pre \in Prologs, l \in ChildLists(MaxChildren) :
        ParsedXml(PrologDocument(pre, l)) => ~last.err /\ last.ret.val = PrologTree(l)

RECURSIVE WellNamed(_)
\* Every node of the tree under n has a name, made of the characters of names.
WellNamed(n) ==
    /\ n.name # <<>>
    /\ \A i \in 1..Len(n.name) :
           \/ n.name[i] \in (48..57) \cup (65..90) \cup (97..122)
           \/ n.name[i] \in { 95, 58, 45 }
    /\ \A i \in 1..Len(n.child_nodes) : WellNamed(n.child_nodes[i])

\* C19: every node Node::parse returns has a non-empty name made of
\* alphanumerics, '_', ':' and '-'; a text with an empty tag name, as < />
\* and <></>, is rejected.
C19_NonEmptyNames ==
    /\ (last.op = "xml_parse" /\ ~last.err) => WellNamed(last.ret.val)
    /\ ParsedXml(EmptyTag(<<>>)) => last.err
    /\ ParsedXml(OpenTag(<<>>) \o CloseTag(<<>>)) => last.err

\* The names of the children of n in their order, and of the whole tree.
ChildNamesOf(n) == [i \in 1..Len(n.child_nodes) |-> n.child_nodes[i].name]

RECURSIVE NameTree(_)
NameTree(n) ==
    [name |-> n.name, children |-> [i \in 1..Len(n.child_nodes) |-> NameTree(n.child_nodes[i])]]

\* n has children and no text, and its children have neither text,
\* attributes nor children.
BareChildren(n) ==
    /\ n.text_content = <<>>
    /\ n.child_nodes # <<>>
    /\ \A i \in 1..Len(n.child_nodes) : n.child_nodes[i] = NewNode(n.child_nodes[i].name)

\* C18: the order of children is preserved: add_child and the mutable
\* operator[] only ever append, dump writes the children in their stored
\* order and parse returns them in the order of the document, so that the
\* sequence of child names is the same after any number of appends and after
\* dump and parse, at every node.
C18_ChildOrderPreserved ==
    /\ last.op = "add_child" => doc.child_nodes = Append(last.pre.child_nodes, last.arg.child)
    /\ last.op = "index_child" =>
           IF \E i \in 1..Len(last.pre.child_nodes) : last.pre.child_nodes[i].name = last.arg.child_name
           THEN doc = last.pre
           ELSE doc.child_nodes = Append(last.pre.child_nodes, NewNode(last.arg.child_name))
    /\ last.op = "xml_roundtrip" =>
           /\ ~last.err
           /\ ChildNamesOf(last.ret.node) = ChildNamesOf(doc)
           /\ NameTree(last.ret.node) = NameTree(doc)
           /\ (BareChildren(doc) /\ ~last.arg.pretty) =>
                  last.ret.text = OpenTag(doc.name)
                                      \o Concat([i \in 1..Len(doc.child_nodes) |-> EmptyTag(doc.child_nodes[i].name)])
                                      \o CloseTag(doc.name)

\* The children b, a, b, appended in that order, have been written and read
\* back in that order.
C18_Witness ==
    /\ last.op = "xml_roundtrip"
    /\ ChildNamesOf(doc) = <<NameB, NameA, NameB>>
    /\ ~last.err
    /\ ChildNamesOf(last.ret.node) = <<NameB, NameA, NameB>>

\* C20: Node::parse(n.dump(true)) has the name, the attributes, the text and
\* the children of n at every node, for nodes with children as for leaves.
C20_PrettyRoundTrip ==
    (last.op = "xml_roundtrip" /\ last.arg.pretty) => ~last.err /\ last.ret.node = doc

\* ------------------------------------------------------------ string claims

\* C21: a JSON string literal must be closed: when the input ends before the
\* closing quote of a string, as a value or as an object key, JSON::parse
\* raises and JSON::is_valid returns false.
C21_UnterminatedString ==
    /\ (last.op = "parse" /\ last.arg.text \in UnterminatedTexts) => last.err
    /\ (last.op = "is_valid" /\ last.arg.text \in UnterminatedTexts) => ~last.ret

\* The value of a run of hexadecimal digits.
RECURSIVE HexNumber(_)
HexNumber(r) ==
    IF r = <<>> THEN 0
    ELSE 16 * HexNumber(SubSeq(r, 1, Len(r) - 1))
            + (LET c == r[Len(r)]
               IN  IF c \in 48..57 THEN c - 48 ELSE IF c \in 65..70 THEN c - 55 ELSE c - 87)

AllHexDigits(r) == \A i \in 1..Len(r) : r[i] \in (48..57) \cup (65..70) \cup (97..102)

\* The UTF-8 of a code point of the basic plane.
Utf8Basic(cp) ==
    IF cp < 128 THEN <<cp>>
    ELSE IF cp < 2048 THEN <<192 + (cp \div 64), 128 + (cp % 64)>>
    ELSE <<224 + (cp \div 4096), 128 + ((cp \div 64) % 64), 128 + (cp % 64)>>

\* C22: a \u escape is accepted only when four hexadecimal digits follow it,
\* and then decodes to the code point the four digits denote; a \u followed
\* by four characters that are not all hexadecimal digits is a parse error.
C22_FourHexDigits ==
    (last.op = "parse" /\ last.arg.text \in UnicodeTexts) =>
        LET run == SubSeq(last.arg.text, 4, 7)
        IN  IF AllHexDigits(run)
            THEN ~last.err /\ last.ret.val = Str(Utf8Basic(HexNumber(run)))
            ELSE last.err

\* C23: inside a string literal parse rejects a raw byte exactly when its
\* unsigned value is below 32; every other raw byte except the quote and the
\* backslash, the bytes 128 to 255 included, is accepted and copied unchanged
\* into the String.
C23_RawBytes ==
    (last.op = "parse" /\ last.arg.text \in RawByteTexts) =>
        LET body == SubSeq(last.arg.text, 2, Len(last.arg.text) - 1)
            b == body[(Len(body) + 1) \div 2]
        IN  b \notin { 34, 92 } =>
                /\ last.err = (b < 32)
                /\ ~last.err => last.ret.val = Str(body)

\* How dump is to write the byte b of a String.
EscapedByte(b) ==
    CASE b = 34 -> { <<92, 34>> }
      [] b = 92 -> { <<92, 92>> }
      [] b = 8 -> { <<92, 98>> }
      [] b = 12 -> { <<92, 102>> }
      [] b = 10 -> { <<92, 110>> }
      [] b = 13 -> { <<92, 114>> }
      [] b = 9 -> { <<92, 116>> }
      [] OTHER -> IF b < 32 \/ b = 127
                  THEN { <<92, 117, 48, 48>> \o Hex4(b, 2), <<92, 117, 48, 48>> \o Lower(Hex4(b, 2)) }
                  ELSE { <<b>> }

\* C24: dump writes the quote, the backslash, backspace, form feed, newline,
\* carriage return and tab as their two-character escapes, every other byte
\* below 32 and the byte 127 as the six characters \u00XX, and every other
\* byte, 128 to 255 included, as it is; what it writes for a String is a
\* literal the parser accepts and decodes to the same bytes.
C24_StringDump ==
    (last.op = "roundtrip" /\ is_string(doc)) =>
        /\ Len(doc.v) = 1 => \E e \in EscapedByte(doc.v[1]) : last.ret.text = Quoted(e)
        /\ ~last.err
        /\ last.ret.parsed = doc

\* C25: Node::parse accepts alphanumerics, '_', ':' and '-' in attribute
\* names as in tag names: <a data-id="1" /> parses and has the attribute
\* data-id = 1.
C25_AttributeNames ==
    \A k \in AttributeNames :
        ParsedXml(AttributeDocument(k))
            => ~last.err /\ last.ret.val = set_attribute(NewNode(NameA), k, <<49>>)

\* C26: Node::parse accepts only complete elements: a text that ends before
\* the '>' of a closing tag, before the end of a quoted attribute value or
\* before the '>' of an opening tag is rejected, and the complete documents
\* are accepted.
C26_CompleteElements ==
    /\ (last.op = "xml_parse" /\ last.arg.text \in TruncatedTexts) => last.err
    /\ (last.op = "xml_parse" /\ last.arg.text \in CompleteDocuments) => ~last.err

\* ------------------------------------------------------------ mutation claims

MutatingCalls ==
    { "index_at", "index_key", "push_back", "push_front", "pop_back", "insert",
      "erase", "erase_key", "merge", "set_path" }

\* C27: whenever operator[](size_t), operator[](key), push_back, push_front,
\* pop_back, insert, erase, merge or set_path raises, the whole document equals
\* its state before the call: set_path has created no container, resized no
\* array and inserted no key.
C27_FailedMutationAtomic ==
    (last.op \in MutatingCalls /\ last.err) => doc = last.pre

\* set_path has raised below the root of a document built by the other
\* mutators, where it met a value of the wrong kind after a segment it followed.
C27_Witness ==
    /\ last.op = "set_path" /\ last.arg.wf /\ last.err
    /\ \E n \in 2..Len(last.arg.segs) : WrongKindAt(last.pre, last.arg.segs, n)
    /\ doc = last.pre

\* The segment path a leads to the position of b or to a position above it.
IsSegPrefix(a, b) == Len(a) <= Len(b) /\ SubSeq(b, 1, Len(a)) = a

RECURSIVE KeptAlong(_, _, _)
\* after holds everything before held, in its place, except at the position
\* segs addresses: arrays on the way are as long or longer, objects have the
\* same entries or more, and what lies beside the way is equal.
KeptAlong(before, after, segs) ==
    IF segs = <<>> \/ is_null(before) THEN TRUE
    ELSE LET g == Head(segs)
         IN  IF g.kind = "key"
             THEN /\ is_object(before) /\ is_object(after)
                  /\ DOMAIN before.v \subseteq DOMAIN after.v
                  /\ \A k \in DOMAIN before.v :
                         IF k = g.key THEN KeptAlong(before.v[k], after.v[k], Tail(segs))
                         ELSE after.v[k] = before.v[k]
             ELSE /\ is_array(before) /\ is_array(after)
                  /\ Len(after.v) >= Len(before.v)
                  /\ \A i \in 1..Len(before.v) :
                         IF i = g.idx + 1 THEN KeptAlong(before.v[i], after.v[i], Tail(segs))
                         ELSE after.v[i] = before.v[i]

\* C28: after a successful set_path(p, x), at_path(q) returns what it returned
\* before the call for every well-formed path q such that neither p nor q is a
\* prefix of the other by segments; no array element and no object entry that
\* existed is removed or moved, and arrays only grow.
C28_SetPathFrame ==
    (last.op = "set_path" /\ last.arg.wf /\ ~last.err) =>
        /\ \A q \in PathInputs :
               (q.wf /\ ~IsSegPrefix(q.segs, last.arg.segs)
                     /\ ~IsSegPrefix(last.arg.segs, q.segs))
                   => at_path(doc, q.path) = [at_path(last.pre, q.path) EXCEPT !.self = doc]
        /\ KeptAlong(last.pre, doc, last.arg.segs)

\* set_path has grown an Array that held a value, and has changed the document
\* while another path, beside the one written, addressed a value.
C28_Witness ==
    /\ last.op = "set_path" /\ last.arg.wf /\ ~last.err
    /\ doc # last.pre
    /\ \E q \in PathInputs :
           /\ q.wf /\ ~IsSegPrefix(q.segs, last.arg.segs) /\ ~IsSegPrefix(last.arg.segs, q.segs)
           /\ ~is_null(at_path(last.pre, q.path).val)
    /\ \E n \in 1..Len(last.arg.segs) :
           LET parent == Lookup(last.pre, Prefix(last.arg.segs, n - 1))
           IN  /\ last.arg.segs[n].kind = "idx"
               /\ is_array(parent)
               /\ Len(parent.v) > 0
               /\ Len(parent.v) <= last.arg.segs[n].idx
               /\ \E i \in 1..Len(parent.v) : ~is_null(parent.v[i])

\* The path string of the slot i of the Array that segment n of segs indexes.
SlotPath(segs, n, i) == PathText(Append(Prefix(segs, n - 1), IdxSeg(i)), 1)

\* The slots set_path has created in the Array that segment n of the path
\* indexes, the addressed slot aside.
NewSlots(n) ==
    LET before == Lookup(last.pre, Prefix(last.arg.segs, n - 1))
        was == IF is_array(before) THEN Len(before.v) ELSE 0
    IN  { i \in was..(last.arg.segs[n].idx - 1) : last.arg.segs[n].kind = "idx" }

\* C29: has_path(p) is true exactly when at_path(p) returns a value that is
\* not Null, and it leaves the document as it was; after a successful
\* set_path(p, Null) has_path(p) is false; after a successful set_path that
\* has grown an Array (set_path("a[2]", x) on a Null document), has_path is
\* false for the slots it created before the addressed one (a[0] and a[1]).
C29_HasPathNonNull ==
    /\ (last.op = "has_path") =>
           LET r == at_path(last.pre, last.arg.path)
           IN  /\ doc = last.pre
               /\ last.err = r.err
               /\ (~last.err /\ last.ret) = (~r.err /\ ~is_null(r.val))
               /\ (last.arg.wf /\ Resolves(last.pre, last.arg.segs)
                       /\ is_null(Lookup(last.pre, last.arg.segs)))
                      => (~last.err /\ ~last.ret)
    /\ (last.op = "set_path" /\ last.arg.wf /\ ~last.err) =>
           /\ is_null(last.arg.val) => ~has_path(doc, last.arg.path).val
           /\ \A n \in 1..Len(last.arg.segs) : \A i \in NewSlots(n) :
                  /\ Resolves(doc, Append(Prefix(last.arg.segs, n - 1), IdxSeg(i)))
                  /\ ~has_path(doc, SlotPath(last.arg.segs, n, i)).val

\* ------------------------------------------------------------ accessor frame claims

\* The text t holds the text part.
Contains(t, part) ==
    \E i \in 1..(Len(t) - Len(part) + 1) : SubSeq(t, i, i + Len(part) - 1) = part

ConstCalls == { "const_index_at", "const_index_key", "at", "contains", "at_path" }

\* C30: operator[](key) on an Object that lacks the key inserts the key with
\* the value Null: size grows by one, contains(key) becomes true, dump shows
\* "key":null, and the other entries stay; operator[](idx) with idx >= size
\* grows the Array to idx + 1 elements, the new ones Null, the old ones kept.
\* The const operator[] overloads, at(key, default), contains and at_path leave
\* the document as it was, and the const operator[] raises on an absent key and
\* on an index that is out of range.
C30_MutableReadsInsert ==
    /\ (last.op = "index_key" /\ is_object(last.pre) /\ ~contains(last.pre, last.arg.key)) =>
           /\ ~last.err
           /\ size(doc) = size(last.pre) + 1
           /\ contains(doc, last.arg.key)
           /\ is_null(last.ret) /\ IndexKeyConst(doc, last.arg.key) = Done(doc, Null)
           /\ Contains(dump(doc, FALSE, 0, 2, 6),
                       DumpString(last.arg.key) \o Txt(<<":", "n", "u", "l", "l">>))
           /\ \A k \in DOMAIN last.pre.v : IndexKeyConst(doc, k) = Done(doc, last.pre.v[k])
    /\ (last.op = "index_at" /\ is_array(last.pre) /\ last.arg.idx >= size(last.pre)) =>
           /\ ~last.err
           /\ size(doc) = last.arg.idx + 1
           /\ is_null(last.ret)
           /\ \A i \in 0..last.arg.idx :
                  IndexAtConst(doc, i)
                      = Done(doc, IF i < size(last.pre) THEN last.pre.v[i + 1] ELSE Null)
    /\ (last.op \in ConstCalls) => doc = last.pre
    /\ (last.op = "const_index_key")
           => (last.err = ~(is_object(last.pre) /\ last.arg.key \in DOMAIN last.pre.v))
    /\ (last.op = "const_index_at")
           => (last.err = ~(is_array(last.pre) /\ last.arg.idx < Len(last.pre.v)))
    /\ (last.op = "at") =>
           /\ ~last.err
           /\ last.ret = IF is_object(last.pre) /\ last.arg.key \in DOMAIN last.pre.v
                         THEN last.pre.v[last.arg.key] ELSE last.arg.val

\* operator[](key) has been called on an Object that holds another key and
\* lacks this one.
C30_Witness ==
    /\ last.op = "index_key" /\ ~last.err
    /\ is_object(last.pre) /\ DOMAIN last.pre.v # {}
    /\ ~contains(last.pre, last.arg.key)
    /\ size(doc) = 2

====
